---- MODULE Spec2Model ----
(***************************************************************************)
(* Model of script/tools/mypack.ts (class MyPacker): the bundler that      *)
(* resolves require calls breadth first, checks circular references,       *)
(* rewrites load calls, emits the runtime wrapper and keeps lastHash /     *)
(* lastModules across runs.                                                *)
(*                                                                         *)
(* Text (file names, file contents, the bundle) is a sequence of one       *)
(* character strings, so that slicing, endsWith and the regular expression *)
(* of processModule are computed character by character as the code does.  *)
(* File names are absolute normalised POSIX paths.                         *)
(***************************************************************************)
EXTENDS Integers, Sequences, FiniteSets, TLC

(***************************************************************************)
(* Strings                                                                 *)
(***************************************************************************)

\* String.prototype.slice(start, end) with 0 <= start, end exclusive
Slice(s, start, end) == SubSeq(s, start + 1, IF end > Len(s) THEN Len(s) ELSE end)

\* String.prototype.slice(start)
SliceFrom(s, start) == SubSeq(s, start + 1, Len(s))

\* String.prototype.slice(0, -n)
DropLast(s, n) == SubSeq(s, 1, Len(s) - n)

\* String.prototype.endsWith
EndsWith(s, suffix) ==
    /\ Len(suffix) <= Len(s)
    /\ SubSeq(s, Len(s) - Len(suffix) + 1, Len(s)) = suffix

\* s has p at the 0-based index i
HasAt(s, i, p) ==
    /\ i + Len(p) <= Len(s)
    /\ SubSeq(s, i + 1, i + Len(p)) = p

RECURSIVE Concat(_)
\* the concatenation of a sequence of strings
Concat(ss) == IF ss = <<>> THEN <<>> ELSE Head(ss) \o Concat(Tail(ss))

RECURSIVE CountChar(_, _)
\* s.split(c).length - 1
CountChar(s, c) ==
    IF s = <<>> THEN 0
    ELSE (IF Head(s) = c THEN 1 ELSE 0) + CountChar(Tail(s), c)

JS == <<".", "j", "s">>
MAP == <<".", "m", "a", "p">>
INDEX == <<"i", "n", "d", "e", "x">>
DOT == <<".">>
SLASH == <<"/">>
NL == "\n"

(***************************************************************************)
(* node's path module, POSIX flavour, on absolute directories              *)
(***************************************************************************)

RECURSIVE SplitFrom(_, _, _)
\* the segments of s between slashes; cur is the segment being read
SplitFrom(s, cur, acc) ==
    IF s = <<>> THEN Append(acc, cur)
    ELSE IF Head(s) = "/" THEN SplitFrom(Tail(s), <<>>, Append(acc, cur))
    ELSE SplitFrom(Tail(s), Append(cur, Head(s)), acc)

Split(s) == SplitFrom(s, <<>>, <<>>)

RECURSIVE Join(_)
Join(segs) ==
    IF segs = <<>> THEN <<>>
    ELSE IF Len(segs) = 1 THEN segs[1]
    ELSE segs[1] \o SLASH \o Join(Tail(segs))

RECURSIVE NormalizeSegments(_, _)
\* normalizeString of node's path: drops empty and "." segments, ".." pops
\* (at the root of an absolute path there is nothing to pop)
NormalizeSegments(segs, acc) ==
    IF segs = <<>> THEN acc
    ELSE LET seg == Head(segs) IN
         IF seg = <<>> \/ seg = DOT THEN NormalizeSegments(Tail(segs), acc)
         ELSE IF seg = <<".", ".">>
              THEN NormalizeSegments(Tail(segs),
                       IF acc = <<>> THEN acc ELSE SubSeq(acc, 1, Len(acc) - 1))
         ELSE NormalizeSegments(Tail(segs), Append(acc, seg))

\* the segments of an absolute path
PathSegments(p) == NormalizeSegments(Split(p), <<>>)

RECURSIVE LastSlash(_, _)
\* 1-based position of the last slash of s at or before i, 0 if none
LastSlash(s, i) ==
    IF i = 0 THEN 0 ELSE IF s[i] = "/" THEN i ELSE LastSlash(s, i - 1)

\* path.dirname
PathDirname(p) ==
    LET k == LastSlash(p, Len(p)) IN
    IF k = 0 THEN DOT
    ELSE IF k = 1 THEN SLASH
    ELSE SubSeq(p, 1, k - 1)

\* path.resolve(dir, request), dir absolute, request relative
PathResolve(dir, request) ==
    SLASH \o Join(NormalizeSegments(Split(dir) \o Split(request), <<>>))

RECURSIVE CommonPrefixLen(_, _)
CommonPrefixLen(a, b) ==
    IF a = <<>> \/ b = <<>> THEN 0
    ELSE IF Head(a) = Head(b) THEN 1 + CommonPrefixLen(Tail(a), Tail(b))
    ELSE 0

\* path.relative(from, to), both absolute
PathRelative(from, to) ==
    LET f == PathSegments(from)
        t == PathSegments(to)
        n == CommonPrefixLen(f, t)
        ups == [i \in 1..(Len(f) - n) |-> <<".", ".">>]
    IN  Join(ups \o SubSeq(t, n + 1, Len(t)))

(***************************************************************************)
(* processModule: module name, load-call detection, resolution, rewriting  *)
(***************************************************************************)

\* absent values of the code: null (a cleared text, a failed resolution) and
\* undefined (a Source without companion map); neither is a text, whose
\* elements are single characters
Null == <<"null">>
Undefined == <<"undefined">>

\* \w of the regular expression
WordChars ==
    { "a", "b", "c", "d", "e", "f", "g", "h", "i", "j", "k", "l", "m",
      "n", "o", "p", "q", "r", "s", "t", "u", "v", "w", "x", "y", "z",
      "A", "B", "C", "D", "E", "F", "G", "H", "I", "J", "K", "L", "M",
      "N", "O", "P", "Q", "R", "S", "T", "U", "V", "W", "X", "Y", "Z",
      "0", "1", "2", "3", "4", "5", "6", "7", "8", "9", "_" }

\* the class [\.\w\-\/] of the regular expression
RequestChars == WordChars \cup { ".", "-", "/" }

\* require("
RequireOpen == <<"r", "e", "q", "u", "i", "r", "e", "(", "\"">>
\* ");
RequireClose == <<"\"", ")", ";">>
\* myimport("
ImportOpen == <<"m", "y", "i", "m", "p", "o", "r", "t", "(", "\"">>

RECURSIVE ClassRunEnd(_, _)
\* 0-based index of the first character at or after i outside the class
ClassRunEnd(s, i) ==
    IF i < Len(s) /\ s[i + 1] \in RequestChars THEN ClassRunEnd(s, i + 1) ELSE i

\* /require\("(?<request>\.[\.\w\-\/]*)"\);/ tried at the 0-based index i:
\* the index right after the match, or -1. The class excludes the quote, so
\* the greedy run is the only candidate for the captured text.
MatchAt(s, i) ==
    IF HasAt(s, i, RequireOpen) /\ HasAt(s, i + Len(RequireOpen), DOT)
    THEN LET j == ClassRunEnd(s, i + Len(RequireOpen) + 1) IN
         IF HasAt(s, j, RequireClose) THEN j + Len(RequireClose) ELSE -1
    ELSE -1

RECURSIVE ExecAll(_, _)
\* the successive pattern.exec(content) results of the global pattern, from
\* lastIndex on: <<[index, raw]>>
ExecAll(s, lastIndex) ==
    IF lastIndex >= Len(s) THEN <<>>
    ELSE LET end == MatchAt(s, lastIndex) IN
         IF end = -1 THEN ExecAll(s, lastIndex + 1)
         ELSE <<[index |-> lastIndex,
                 raw |-> Slice(s, lastIndex + Len(RequireOpen), end - Len(RequireClose))]>>
              \o ExecAll(s, end)

\* this.sources.some(s => s.filename == name)
HasSource(sources, name) == \E i \in 1..Len(sources) : sources[i].filename = name

\* this.sources.find(s => s.filename == name), for a name HasSource accepts
FindSource(sources, name) ==
    sources[CHOOSE i \in 1..Len(sources) :
                /\ sources[i].filename = name
                /\ \A j \in 1..(i - 1) : sources[j].filename # name]

\* a resolution that tries the index file first
ResolveFileNameIndexFirst(sources, fullRequest) ==
    IF HasSource(sources, fullRequest \o SLASH \o INDEX \o JS)
    THEN fullRequest \o SLASH \o INDEX \o JS
    ELSE IF HasSource(sources, fullRequest \o JS) THEN fullRequest \o JS
    ELSE IF HasSource(sources, fullRequest) THEN fullRequest
    ELSE Null

\* requiredFileName: the literal path, then plus .js, then plus /index.js
ResolveFileName(sources, fullRequest) ==
    IF HasSource(sources, fullRequest) THEN fullRequest
    ELSE IF HasSource(sources, fullRequest \o JS) THEN fullRequest \o JS
    ELSE IF HasSource(sources, fullRequest \o SLASH \o INDEX \o JS)
         THEN fullRequest \o SLASH \o INDEX \o JS
    ELSE Null

\* if (name.endsWith('index')) name = name.slice(0, -5)
StripIndex(name) == IF EndsWith(name, INDEX) THEN DropLast(name, 5) ELSE name

\* if (name.length == 0) name = '.'
EmptyToDot(name) == IF Len(name) = 0 THEN DOT ELSE name

\* moduleName of processModule
ModuleName(entry, filename) ==
    LET rel == PathRelative(PathDirname(entry), filename)
        noext == IF EndsWith(rel, JS) THEN DropLast(rel, 3) ELSE rel
    IN  EmptyToDot(StripIndex(noext))

\* requiredModuleName of processModule
RequiredModuleName(entry, requiredFileName) ==
    EmptyToDot(StripIndex(DropLast(PathRelative(PathDirname(entry), requiredFileName), 3)))

\* one ModuleRequest, resolvedFileName = Null when resolution fails
MakeRequest(entry, sources, source, match) ==
    LET fullRequest == PathResolve(PathDirname(source.filename), match.raw)
        requiredFileName == ResolveFileName(sources, fullRequest)
    IN  [index |-> match.index,
         raw |-> match.raw,
         resolvedFileName |-> requiredFileName,
         resolvedModuleName |->
             IF requiredFileName = Null THEN Null
             ELSE RequiredModuleName(entry, requiredFileName)]

\* the requests of a Source in match order
ModuleRequests(entry, sources, source) ==
    LET matches == ExecAll(source.jsContent, 0) IN
    [k \in 1..Len(matches) |-> MakeRequest(entry, sources, source, matches[k])]

\* a rewrite that leaves the load call's name in place
ImportCallRequire(resolvedModuleName) ==
    RequireOpen \o resolvedModuleName \o RequireClose

\* myimport("<name>");
ImportCall(resolvedModuleName) == ImportOpen \o resolvedModuleName \o RequireClose

\* a request end that takes the rest of the pattern to be 11 characters
RequestEndShort(request) == request.index + Len(request.raw) + 11

\* previousEndIndex = index + raw.length + 12
RequestEnd(request) == request.index + Len(request.raw) + 12

RECURSIVE Rewrite(_, _, _)
\* moduleContent: the slices between the requests and the import calls
Rewrite(jsContent, requests, previousEndIndex) ==
    IF requests = <<>> THEN SliceFrom(jsContent, previousEndIndex)
    ELSE LET r == Head(requests) IN
         Slice(jsContent, previousEndIndex, r.index)
         \o ImportCall(r.resolvedModuleName)
         \o Rewrite(jsContent, Tail(requests), RequestEnd(r))

\* sha256(text).toString(): a digest, taken as free of collisions
Sha256(text) == <<"sha256:">> \o text

\* the null a failed processModule returns
NullModule == [null |-> TRUE]

\* a processModule that skips a request that resolves to no Source instead
\* of returning null
ProcessModuleSkipping(entry, sources, source) ==
    LET requests == SelectSeq(ModuleRequests(entry, sources, source),
                              LAMBDA r : r.resolvedFileName # Null)
        content == Rewrite(source.jsContent, requests, 0)
    IN  [name |-> ModuleName(entry, source.filename),
         source |-> source,
         requests |-> requests,
         content |-> content,
         hash |-> Sha256(content)]

\* a processModule whose names depend on the number of Sources in the list
ProcessModuleCounting(entry, sources, source) ==
    LET tag == IF Len(sources) > 2 THEN <<"+">> ELSE <<>>
        found == ModuleRequests(entry, sources, source)
        requests == [k \in 1..Len(found) |->
                        [found[k] EXCEPT !.resolvedModuleName = tag \o @]]
    IN  IF \E k \in 1..Len(requests) : requests[k].resolvedFileName = Null
        THEN NullModule
        ELSE LET content == Rewrite(source.jsContent, requests, 0) IN
             [name |-> tag \o ModuleName(entry, source.filename),
              source |-> source,
              requests |-> requests,
              content |-> content,
              hash |-> Sha256(content)]

\* processModule(source): the Module, or null at the first request that
\* resolves to no Source
ProcessModule(entry, sources, source) ==
    LET requests == ModuleRequests(entry, sources, source) IN
    IF \E k \in 1..Len(requests) : requests[k].resolvedFileName = Null
    THEN NullModule
    ELSE LET content == Rewrite(source.jsContent, requests, 0) IN
         [name |-> ModuleName(entry, source.filename),
          source |-> source,
          requests |-> requests,
          content |-> content,
          hash |-> Sha256(content)]

(***************************************************************************)
(* getSources, the breadth first traversal, checkCircularReference         *)
(***************************************************************************)

\* a getSources filter that takes every file
IsAnyFile(file) == TRUE

\* f => f.name.endsWith('.js')
IsScript(file) == EndsWith(file.name, JS)

\* this.options.files.find(f => f.name == name + '.map')?.content
MapContentOf(files, name) ==
    IF \E i \in 1..Len(files) : files[i].name = name \o MAP
    THEN files[CHOOSE i \in 1..Len(files) :
                   /\ files[i].name = name \o MAP
                   /\ \A j \in 1..(i - 1) : files[j].name # name \o MAP].content
    ELSE Undefined

\* getSources
GetSources(files) ==
    LET scripts == SelectSeq(files, IsScript) IN
    [i \in 1..Len(scripts) |->
        [filename |-> scripts[i].name,
         jsContent |-> scripts[i].content,
         mapContent |-> MapContentOf(files, scripts[i].name)]]

\* requiredFileNames.includes(f)
Includes(names, f) == \E i \in 1..Len(names) : names[i] = f

\* the argument list of requiredFileNames.push: the filter is evaluated on
\* the list as it is before the push
NewFileNames(requests, requiredFileNames) ==
    LET resolved == [k \in 1..Len(requests) |-> requests[k].resolvedFileName] IN
    SelectSeq(resolved, LAMBDA f : ~Includes(requiredFileNames, f))

RECURSIVE Traverse(_, _, _, _, _)
\* the loop "bfs require" of run: [ok, modules]; ok is false when a
\* processModule returned null
Traverse(entry, sources, requiredFileNames, moduleIndex, modules) ==
    IF moduleIndex > Len(requiredFileNames)
    THEN [ok |-> TRUE, modules |-> modules]
    ELSE LET m == ProcessModule(entry, sources,
                      FindSource(sources, requiredFileNames[moduleIndex])) IN
         IF m = NullModule THEN [ok |-> FALSE, modules |-> modules]
         ELSE Traverse(entry, sources,
                  requiredFileNames \o NewFileNames(m.requests, requiredFileNames),
                  moduleIndex + 1, Append(modules, m))

RECURSIVE TraverseNames(_, _, _, _)
\* requiredFileNames when the loop "bfs require" ends, by its end test or by
\* the return at a null module
TraverseNames(entry, sources, requiredFileNames, moduleIndex) ==
    IF moduleIndex > Len(requiredFileNames) THEN requiredFileNames
    ELSE LET m == ProcessModule(entry, sources,
                      FindSource(sources, requiredFileNames[moduleIndex])) IN
         IF m = NullModule THEN requiredFileNames
         ELSE TraverseNames(entry, sources,
                  requiredFileNames \o NewFileNames(m.requests, requiredFileNames),
                  moduleIndex + 1)

\* modules.find(m => m.name == name); BuildModules only asks for names of
\* modules in the list
FindModule(modules, name) ==
    modules[CHOOSE i \in 1..Len(modules) :
                /\ modules[i].name = name
                /\ \A j \in 1..(i - 1) : modules[j].name # name]

RECURSIVE Load(_, _, _)
\* load($module) of checkCircularReference: TRUE when it throws 'circular
\* reference'; loadings holds the modules being loaded
Load(modules, m, loadings) ==
    LET stack == Append(loadings, m) IN
    \E k \in 1..Len(m.requests) :
        LET requestedModule == FindModule(modules, m.requests[k].resolvedModuleName) IN
        \/ \E i \in 1..Len(stack) : stack[i].name = requestedModule.name
        \/ Load(modules, requestedModule, stack)

RECURSIVE LoadStacks(_, _, _)
\* the names in loadings at every call of load($module) that
\* checkCircularReference can make, the throwing request not followed
LoadStacks(modules, m, loadings) ==
    LET stack == Append(loadings, m.name) IN
    {stack} \cup
    UNION { LET requestedModule ==
                    FindModule(modules, m.requests[k].resolvedModuleName) IN
            IF \E i \in 1..Len(stack) : stack[i] = requestedModule.name
            THEN {}
            ELSE LoadStacks(modules, requestedModule, stack) :
            k \in 1..Len(m.requests) }

\* checkCircularReference(modules)
CheckCircularReference(modules) == Load(modules, modules[1], <<>>)

(***************************************************************************)
(* emitRuntimePrefix, emitModule, emitRuntimePostfix                       *)
(***************************************************************************)

\* `#!/usr/bin/env node\n`
Shebang ==
    << "#", "!", "/", "u", "s", "r", "/", "b", "i", "n", "/", "e", "n", "v",
       " ", "n", "o", "d", "e", "\n" >>

\* `((modules) => { const mycache = {};\n`
AppHead ==
    << "(", "(", "m", "o", "d", "u", "l", "e", "s", ")", " ", "=", ">", " ",
       "{", " ", "c", "o", "n", "s", "t", " ", "m", "y", "c", "a", "c", "h",
       "e", " ", "=", " ", "{", "}", ";", "\n" >>

\* `module.exports = ((modules) => { const mycache = {};\n`
LibHead ==
    << "m", "o", "d", "u", "l", "e", ".", "e", "x", "p", "o", "r", "t", "s",
       " ", "=", " ", "(", "(", "m", "o", "d", "u", "l", "e", "s", ")", " ",
       "=", ">", " ", "{", " ", "c", "o", "n", "s", "t", " ", "m", "y", "c",
       "a", "c", "h", "e", " ", "=", " ", "{", "}", ";", "\n" >>

\* `(function myrequire(modulename) { if (!(modulename in mycache)) { mycache[modulename] = {}; modules[modulename](mycache[modulename], myrequire); } return mycache[modulename]; })('`
Loader ==
    << "(", "f", "u", "n", "c", "t", "i", "o", "n", " ", "m", "y", "r", "e",
       "q", "u", "i", "r", "e", "(", "m", "o", "d", "u", "l", "e", "n", "a",
       "m", "e", ")", " ", "{", " ", "i", "f", " ", "(", "!", "(", "m", "o",
       "d", "u", "l", "e", "n", "a", "m", "e", " ", "i", "n", " ", "m", "y",
       "c", "a", "c", "h", "e", ")", ")", " ", "{", " ", "m", "y", "c", "a",
       "c", "h", "e", "[", "m", "o", "d", "u", "l", "e", "n", "a", "m", "e",
       "]", " ", "=", " ", "{", "}", ";", " ", "m", "o", "d", "u", "l", "e",
       "s", "[", "m", "o", "d", "u", "l", "e", "n", "a", "m", "e", "]", "(",
       "m", "y", "c", "a", "c", "h", "e", "[", "m", "o", "d", "u", "l", "e",
       "n", "a", "m", "e", "]", ",", " ", "m", "y", "r", "e", "q", "u", "i",
       "r", "e", ")", ";", " ", "}", " ", "r", "e", "t", "u", "r", "n", " ",
       "m", "y", "c", "a", "c", "h", "e", "[", "m", "o", "d", "u", "l", "e",
       "n", "a", "m", "e", "]", ";", " ", "}", ")", "(", "'" >>

\* `return `
Return ==
    << "r", "e", "t", "u", "r", "n", " " >>

\* `'); })({\n`
PrefixTail ==
    << "'", ")", ";", " ", "}", ")", "(", "{", "\n" >>

\* `': (exports, myimport) => {\n`
ModuleHead ==
    << "'", ":", " ", "(", "e", "x", "p", "o", "r", "t", "s", ",", " ", "m",
       "y", "i", "m", "p", "o", "r", "t", ")", " ", "=", ">", " ", "{", "\n" >>

\* `}, `
ModuleTail ==
    << "}", ",", " " >>

\* `})\n`
Postfix ==
    << "}", ")", "\n" >>

\* a prefix that always starts the loader at '.'
PreambleDot(type, entryModuleName) ==
    IF type = "app"
    THEN AppHead \o Loader \o DOT \o PrefixTail
    ELSE LibHead \o Return \o Loader \o DOT \o PrefixTail

\* the runtime preamble of emitRuntimePrefix for a target kind
Preamble(type, entryModuleName) ==
    IF type = "app"
    THEN AppHead \o Loader \o entryModuleName \o PrefixTail
    ELSE LibHead \o Return \o Loader \o entryModuleName \o PrefixTail

\* an emitRuntimePrefix that counts the preamble as one line
EmitRuntimePrefixOneLine(host, options, entryModuleName) ==
    LET h == IF options.shebang
             THEN [host EXCEPT !.sb = @ \o Shebang, !.lineOffset = @ + 1]
             ELSE host
    IN  [h EXCEPT !.sb = @ \o Preamble(options.type, entryModuleName),
                  !.lineOffset = @ + 1]

\* emitRuntimePrefix(host, entryModuleName)
EmitRuntimePrefix(host, options, entryModuleName) ==
    LET h == IF options.shebang
             THEN [host EXCEPT !.sb = @ \o Shebang, !.lineOffset = @ + 1]
             ELSE host
    IN  [h EXCEPT !.sb = @ \o Preamble(options.type, entryModuleName),
                  !.lineOffset = @ + 2]

\* the text emitModule appends for a module
ModuleEntry(m) == <<"'">> \o m.name \o ModuleHead \o m.content \o ModuleTail

\* emitRuntimePostfix(host)
EmitRuntimePostfix(host) == [host EXCEPT !.sb = @ \o Postfix]

(***************************************************************************)
(* Source maps: a map file's text is a list of mappings, four digits each  *)
(* (generated line, generated column, original line, original column),     *)
(* standing for the JSON of a raw source map                               *)
(***************************************************************************)

Digits == <<"0", "1", "2", "3", "4", "5", "6", "7", "8", "9">>

\* the value of a digit character
DigitValue(c) == (CHOOSE i \in 1..10 : Digits[i] = c) - 1

RECURSIVE NumberText(_)
\* the decimal text of a natural number
NumberText(n) ==
    IF n < 10 THEN <<Digits[n + 1]>>
    ELSE NumberText(n \div 10) \o <<Digits[(n % 10) + 1]>>

\* new SourceMapConsumer(JSON.parse(mapContent)), as eachMapping visits it
ParseMap(mapContent) ==
    [k \in 1..(Len(mapContent) \div 4) |->
        [generatedLine |-> DigitValue(mapContent[4 * k - 3]),
         generatedColumn |-> DigitValue(mapContent[4 * k - 2]),
         originalLine |-> DigitValue(mapContent[4 * k - 1]),
         originalColumn |-> DigitValue(mapContent[4 * k])]]

\* mappings anchored at the module's declaration line
ModuleMappingsAtDeclaration(m, lineOffset) ==
    LET mappings == ParseMap(m.source.mapContent)
        firstMappingLine == mappings[1].generatedLine
    IN  [k \in 1..Len(mappings) |->
            [source |-> DropLast(m.source.filename, 3),
             originalLine |-> mappings[k].originalLine,
             originalColumn |-> mappings[k].originalColumn,
             generatedLine |-> mappings[k].generatedLine - firstMappingLine
                                   + lineOffset,
             generatedColumn |-> mappings[k].generatedColumn]]

\* the mappings emitModule adds to host.generator for one module;
\* lineOffset already counts the module's declaration line
ModuleMappings(m, lineOffset) ==
    LET mappings == ParseMap(m.source.mapContent)
        firstMappingLine == mappings[1].generatedLine
    IN  [k \in 1..Len(mappings) |->
            [source |-> DropLast(m.source.filename, 3),
             originalLine |-> mappings[k].originalLine,
             originalColumn |-> mappings[k].originalColumn,
             generatedLine |-> mappings[k].generatedLine - firstMappingLine
                                   + lineOffset + 1,
             generatedColumn |-> mappings[k].generatedColumn]]

\* one mapping of the merged map as text
MappingText(mapping) ==
    NumberText(mapping.generatedLine) \o <<",">>
    \o NumberText(mapping.generatedColumn) \o <<",">>
    \o mapping.source \o <<",">>
    \o NumberText(mapping.originalLine) \o <<",">>
    \o NumberText(mapping.originalColumn) \o <<";">>

\* the generator of a run without source maps
NullGenerator == [null |-> TRUE]

\* new SourceMapGenerator({ file: this.options.output })
NewGenerator(output) == [file |-> output, mappings |-> <<>>]

\* emitHost.generator?.toString()
GeneratorText(generator) ==
    IF generator = NullGenerator THEN Undefined
    ELSE generator.file \o <<":">>
         \o Concat([k \in 1..Len(generator.mappings) |->
                        MappingText(generator.mappings[k])])

\* emitModule: the host after the module's entry and mappings
EmitModule(host, m) ==
    LET h == [host EXCEPT !.sb = @ \o ModuleEntry(m), !.lineOffset = @ + 1] IN
    IF host.generator = NullGenerator THEN h
    ELSE [h EXCEPT !.generator.mappings = @ \o ModuleMappings(m, h.lineOffset),
                   !.lineOffset = @ + CountChar(m.content, NL)]

(***************************************************************************)
(* The minifier (terser), an external deterministic transform: here it     *)
(* drops line breaks and blanks, so different texts can minify alike       *)
(***************************************************************************)

MinifyCode(code) == SelectSeq(code, LAMBDA c : c # NL /\ c # " ")

MinifyMap(map) == IF map = Undefined THEN Undefined ELSE <<"min:">> \o map

(***************************************************************************)
(* Hash cache, cleanup, clearing                                           *)
(***************************************************************************)

\* a hasChange that ignores the stored hash
HasChangeAlways(hash, last) == TRUE

\* a hasChange that only tells the first hash from none
HasChangeFirstOnly(hash, last) == last = Null

\* hasChange = hash != this.lastHash
HasChange(hash, last) == hash # last

\* a use test that forgets the companion maps
UsedScript(modules, file) ==
    \E i \in 1..Len(modules) : modules[i].source.filename = file.name

\* the file is the Source or the companion map of a module
UsedFile(modules, file) ==
    \/ \E i \in 1..Len(modules) : modules[i].source.filename = file.name
    \/ \E i \in 1..Len(modules) : modules[i].source.filename \o MAP = file.name

\* a cleanup that keeps nothing but the entry file
CleanupKeepsEntry(modules, files) ==
    SelectSeq(files, LAMBDA f : f.name = modules[1].source.filename)

\* cleanupMemoryFile: the list after every unused file is spliced out
CleanupMemoryFile(modules, files) ==
    SelectSeq(files, LAMBDA f : UsedFile(modules, f))

\* a cleanup that runs whatever the option says
CleanupAlways(options) == TRUE

\* !('cleanupFiles' in this.options) || this.options.cleanupFiles
CleanupEnabled(options) ==
    "cleanupFiles" \notin DOMAIN options \/ options.cleanupFiles

\* this.options.printModules, default false
PrintEnabled(options) ==
    "printModules" \in DOMAIN options /\ options.printModules

\* list.some(p => p.source.filename == filename)
HasFile(list, filename) ==
    \E j \in 1..Len(list) : list[j].source.filename = filename

\* list.find(p => p.source.filename == filename), for a filename of the list
FindFile(list, filename) ==
    list[CHOOSE j \in 1..Len(list) :
             /\ list[j].source.filename = filename
             /\ \A k \in 1..(j - 1) : list[k].source.filename # filename]

\* one line of printResult for a module
PrintLine(kind, m) ==
    [kind |-> kind, name |-> m.name, filename |-> m.source.filename]

PrintLines(kind, list) == [i \in 1..Len(list) |-> PrintLine(kind, list[i])]

\* a printResult that reports every module of both lists as updated
PrintResultAllUpdated(options, modules, last) ==
    IF ~PrintEnabled(options) THEN <<>>
    ELSE PrintLines("updated", modules)

\* the module lines of printResult: added, updated and removed modules
\* against lastModules, or every module when there is no lastModules
PrintResult(options, modules, last) ==
    IF ~PrintEnabled(options) THEN <<>>
    ELSE IF last # <<>>
    THEN PrintLines("added",
             SelectSeq(modules, LAMBDA n : ~HasFile(last, n.source.filename)))
         \o PrintLines("updated",
             SelectSeq(modules, LAMBDA n :
                 /\ HasFile(last, n.source.filename)
                 /\ n.hash # FindFile(last, n.source.filename).hash))
         \o PrintLines("removed",
             SelectSeq(last, LAMBDA p : ~HasFile(modules, p.source.filename)))
    ELSE PrintLines("listed", modules)

\* a clearing that keeps the raw text of the Source
ClearModuleKeepsSource(m) == [m EXCEPT !.content = Null]

\* remove content to reduce memory usage
ClearModule(m) ==
    [m EXCEPT !.content = Null,
              !.source = [@ EXCEPT !.jsContent = Null, !.mapContent = Null]]

ClearModules(modules) == [i \in 1..Len(modules) |-> ClearModule(modules[i])]

\* a run that processes every Source of the list, reachable or not
BuildModulesOfAll(options, files) ==
    LET sources == GetSources(files) IN
    IF ~HasSource(sources, options.entry)
    THEN [outcome |-> "invalid entry", modules |-> <<>>]
    ELSE LET t == Traverse(options.entry, sources, <<options.entry>>, 1, <<>>) IN
         IF ~t.ok \/ \E i \in 1..Len(sources) :
                        ProcessModule(options.entry, sources, sources[i]) = NullModule
         THEN [outcome |-> "invalid module name", modules |-> t.modules]
         ELSE IF CheckCircularReference(t.modules)
              THEN [outcome |-> "circular reference", modules |-> t.modules]
         ELSE [outcome |-> "ok", modules |-> t.modules]

\* the synchronous head of run, up to emission: which return is taken and
\* the module list built
BuildModules(options, files) ==
    LET sources == GetSources(files) IN
    IF ~HasSource(sources, options.entry)
    THEN [outcome |-> "invalid entry", modules |-> <<>>]
    ELSE LET t == Traverse(options.entry, sources, <<options.entry>>, 1, <<>>) IN
         IF ~t.ok THEN [outcome |-> "invalid module name", modules |-> t.modules]
         ELSE IF CheckCircularReference(t.modules)
              THEN [outcome |-> "circular reference", modules |-> t.modules]
         ELSE [outcome |-> "ok", modules |-> t.modules]

(***************************************************************************)
(* The files and options the packer is run on                              *)
(***************************************************************************)

FileE == <<"/", "e", ".", "j", "s">>
FileA == <<"/", "a", ".", "j", "s">>
FileAIndex == <<"/", "a", "i", "n", "d", "e", "x", ".", "j", "s">>
FileLib == <<"/", "l", "i", "b", "/", "i", "n", "d", "e", "x", ".", "j", "s">>
FileOut == <<"/", "o", "u", "t">>

RawA == <<".", "/", "a">>
RawAJs == <<".", "/", "a", ".", "j", "s">>
RawAIndex == <<".", "/", "a", "i", "n", "d", "e", "x">>
RawLib == <<".", "/", "l", "i", "b">>
RawE == <<".", "/", "e">>
RawMissing == <<".", "/", "m", "i", "s", "s", "i", "n", "g">>
RawUpA == <<".", ".", "/", "a">>
RawUpE == <<".", ".", "/", "e">>

\* a line holding one load call
Req(raw) == RequireOpen \o raw \o RequireClose \o <<NL>>
\* a line without load call
Stmt == <<"x", ";", NL>>
\* the same statement after a blank line
StmtBlank == <<NL, "x", ";", NL>>

\* the contents a file of the list can have
Contents(name) ==
    IF name = FileE
    THEN { Stmt,
           Req(RawA) \o Stmt,
           Req(RawA) \o Req(RawAJs),
           Req(RawA) \o Req(RawAIndex),
           Req(RawAIndex) \o Req(RawA),
           Req(RawLib),
           Req(RawA) \o Req(RawLib),
           Req(RawMissing),
           Req(RawE) }
    ELSE IF name = FileA
    THEN { Stmt, Req(RawE), Req(RawLib), Req(RawMissing) }
    ELSE IF name = FileAIndex
    THEN { Stmt, Req(RawAIndex), Req(RawA) }
    ELSE IF name = FileLib
    THEN { Stmt, Req(RawUpA), Req(RawUpE) }
    ELSE { <<"1", "0", "1", "0", "2", "0", "2", "0">> }

ScriptNames == <<FileE, FileA, FileAIndex, FileLib>>
MapNames == <<FileE \o MAP, FileA \o MAP>>

Absent == <<"absent">>

\* the names of the files of a list
FileNames(list) == { list[i].name : i \in 1..Len(list) }

\* a file of the list is absent or has one of its contents
Picks(name) == {Absent} \cup Contents(name)

\* the file list that holds, in the order of names, each name whose pick is
\* a content
ListOf(names, picks) ==
    LET present == SelectSeq([i \in 1..Len(names) |-> i], LAMBDA i : picks[i] # Absent) IN
    [k \in 1..Len(present) |->
        [name |-> names[present[k]], content |-> picks[present[k]]]]

\* every list of scripts, each absent or with one of its contents
ScriptLists ==
    { ListOf(ScriptNames, picks) :
        picks \in Picks(FileE) \X Picks(FileA) \X Picks(FileAIndex) \X Picks(FileLib) }

\* the map of a file whose first mapping lies on its second line
LateMap == <<"2", "0", "2", "0">>

\* the maps a map file of the lists can hold
MapPicks(name) ==
    Picks(name) \cup (IF name = FileA \o MAP THEN {LateMap} ELSE {})

\* lists of two scripts and their maps, each map present or not
MapLists ==
    { ListOf(<<FileE, FileA>>, js) \o ListOf(MapNames, maps) :
        js \in { <<Req(RawA) \o Stmt, Stmt>>, <<Stmt, Stmt>>,
                 <<Req(RawA) \o Req(RawAJs), StmtBlank>> },
        maps \in MapPicks(FileE \o MAP) \X MapPicks(FileA \o MAP) }

\* options without the cleanupFiles key
PlainOptions(entries) ==
    [type : {"app", "lib"}, entry : entries, sourceMap : BOOLEAN,
     output : {FileOut}, minify : BOOLEAN, shebang : BOOLEAN]

\* the option objects of the module graph runs: any entry, the rest default
GraphOptions ==
    { o \in PlainOptions({FileE, FileLib, FileAIndex, FileE \o MAP}) :
        o.type = "app" /\ ~o.sourceMap /\ ~o.minify /\ ~o.shebang }

\* the option objects of the emission runs: every toggle, cleanupFiles
\* absent, true or false
EmitOptions ==
    PlainOptions({FileE})
    \cup { o @@ [cleanupFiles |-> c] : o \in PlainOptions({FileE}), c \in BOOLEAN }

\* the option objects whose entry is a file that is no script
MapEntryOptions ==
    { o \in PlainOptions({FileE \o MAP}) : o.type = "app" /\ ~o.minify /\ ~o.shebang }

\* `var x = require("./a.js"); x();`
ScenarioE ==
    << "v", "a", "r", " ", "x", " ", "=", " ", "r", "e", "q", "u", "i", "r",
       "e", "(", "\"", ".", "/", "a", ".", "j", "s", "\"", ")", ";", " ",
       "x", "(", ")", ";" >>

\* `module.exports = () => 1;`
ScenarioA ==
    << "m", "o", "d", "u", "l", "e", ".", "e", "x", "p", "o", "r", "t", "s",
       " ", "=", " ", "(", ")", " ", "=", ">", " ", "1", ";" >>

\* the two files of the packing scenario
ScenarioFiles ==
    << [name |-> FileE, content |-> ScenarioE],
       [name |-> FileA, content |-> ScenarioA] >>

\* the scenario is packed with every toggle but source maps, which default
\* to off and for which it has no map files
ScenarioOptions == { o \in EmitOptions : ~o.sourceMap }

FileAJsJs == FileA \o JS
FileADir == <<"/", "a", "/", "i", "n", "d", "e", "x", ".", "j", "s">>
FileAJsDir == FileA \o <<"/", "i", "n", "d", "e", "x", ".", "j", "s">>

\* lists in which a request of the entry has several candidates: /a.js,
\* /a.js.js, /a/index.js and /a.js/index.js, each present or not
ResolveLists ==
    { ListOf(<<FileE, FileA, FileAJsJs, FileADir, FileAJsDir>>, picks) :
        picks \in { Req(RawA), Req(RawAJs), Req(RawAJs) \o Req(RawA) }
                  \X {Absent, Stmt} \X {Absent, Stmt} \X {Absent, Stmt}
                  \X {Absent, Stmt} }

\* the option objects of the resolution runs
ResolveOptions == { o \in GraphOptions : o.entry = FileE }

\* the inputs of a packer: <<file list, options>>
Inputs ==
    (ScriptLists \X GraphOptions)
    \cup (MapLists \X EmitOptions)
    \cup (MapLists \X MapEntryOptions)
    \cup ({ScenarioFiles} \X ScenarioOptions)
    \cup (ResolveLists \X ResolveOptions)

\* the contents the caller gives a file while it watches
WatchContents(name) ==
    IF name = FileE THEN { Stmt, Req(RawA) \o Stmt, Req(RawMissing) }
    ELSE IF name = FileA THEN { Stmt, StmtBlank, Req(RawE) }
    ELSE IF name = FileLib THEN { Stmt }
    ELSE Contents(name)

\* the files the caller adds: the two modules, a map, and a script nothing
\* requires
WatchNames == { FileE, FileA, FileA \o MAP, FileLib }

\* the option objects of watch mode without diagnostic printing
QuietWatchOptions ==
    { o \in EmitOptions : o.type = "app" /\ ~o.shebang
                          /\ ("cleanupFiles" \in DOMAIN o => ~o.cleanupFiles) }

\* the option objects of watch mode: printModules absent, or true on the
\* runs without source maps that leave the list alone
WatchOptions ==
    QuietWatchOptions
    \cup { o @@ [printModules |-> TRUE] :
              o \in { q \in QuietWatchOptions :
                         ~q.sourceMap /\ "cleanupFiles" \in DOMAIN q } }

\* the inputs of a packer in watch mode
WatchInputs ==
    { ListOf(<<FileE, FileA, FileE \o MAP>>,
             <<Req(RawA) \o Stmt, Stmt, <<"1", "0", "1", "0">>>>) }
    \X WatchOptions

(***************************************************************************)
(* Bounds                                                                  *)
(***************************************************************************)

\* runs of one packer instance
MaxRuns == 3
\* failures of the minifier or of a file write in one behaviour
MaxFaults == 1
\* changes the caller makes to the list in one behaviour
MaxEdits == 2
\* poll ticks of the code generator's watch loop
MaxTicks == 3
\* change notifications of the definition file
MaxNotifications == 2
\* executions of the bundle
MaxExecutions == 1
\* requests and admin commands the server gets
MaxRequests == 3
\* GET requests for the cached page
MaxGets == 3
\* seconds the clock advances
MaxClock == 2

(***************************************************************************)
(* State                                                                   *)
(***************************************************************************)

VARIABLES
    files,        \* this.options.files, the caller's list
    options,      \* this.options without files
    lastHash,     \* this.lastHash
    lastModules,  \* this.lastModules, <<>> for null
    pc,           \* where run() stands: idle, emit, minify, commit, writeJs, writeMap
    modules,      \* modules of the current or last run
    emitIndex,    \* the module the emission loop is at
    emitHost,     \* emitHost
    resultJs,     \* resultJs
    resultMap,    \* resultMap
    hasChange,    \* hasChange
    printed,      \* console.log of printResult in the current or last run
    result,       \* how the last run() ended
    log,          \* logError, the circular reference message, the removed files
    disk,         \* the files at options.output and options.output + '.map'
    written,      \* the writes the current or last run completed
    runs,         \* runs started
    faults,       \* failures injected
    edits,        \* changes the caller made to the list
    edited,       \* the caller changed the list since the last run started
    start,        \* what the current or last run found when it started
    okBundle,     \* final bundle text of the most recent successful run
    hashedBundle, \* final bundle text of the most recent run that set lastHash
    regenerateRequested, \* regenerateRequested of CodeGenerator.watch
    generations,  \* the generate() calls the poll ticks started
    notifications, \* change notifications of the definition file so far
    ticks,        \* poll ticks so far
    parked,       \* the packer instance that shares the list and is not running
    runtime,      \* an execution of the bundle at options.output
    userStorage,  \* userStorage of auth.ts
    userDeviceStorage, \* userDeviceStorage of auth.ts
    database,     \* the UserDevice table
    received,     \* the requests and admin commands the server got
    fileCache,    \* the FileCache entry of main/home.html in content.ts
    webroot,      \* the content of main/home.html on disk
    clock,        \* dayjs.utc().unix(), the time in whole seconds
    gets          \* the GET requests for /www/ the server got

\* the state of a packer, its caller and its run
packerVars ==
    <<files, options, lastHash, lastModules, pc, modules, emitIndex, emitHost,
      resultJs, resultMap, hasChange, printed, result, log, disk, written, runs,
      faults, edits, edited, start, okBundle, hashedBundle>>
\* the state of the code generator's watch loop
watchVars == <<regenerateRequested, generations, notifications, ticks>>
\* the state of the programs other than the packer
\* what lives outside the build script
authVars == <<userStorage, userDeviceStorage, database, received>>

\* the state of the content cache and its surroundings
contentVars == <<fileCache, webroot, clock, gets>>
otherVars == <<runtime, authVars, contentVars>>

outsideVars == <<watchVars, parked, otherVars>>

vars == <<packerVars, outsideVars>>

\* the packer instance and what it shares with its caller
instanceVars == <<files, lastHash, lastModules, disk>>
\* the locals of one run() call
runVars == <<modules, emitIndex, emitHost, resultJs, resultMap, hasChange, printed>>
\* the inputs and the bookkeeping of the environment
envVars == <<options, runs, edits, edited, start>>

NoFile == <<"ENOENT">>

\* ctx.state.now, in days; nothing here takes a day
Now == 100

\* the User table: it is never written
UserTable ==
    { [Id |-> 1, Name |-> <<"a", "l">>, Token |-> "secret1"],
      [Id |-> 2, Name |-> <<"b", "o">>, Token |-> "secret2"] }

\* the server starts with an empty cache over a table that holds the
\* devices of earlier logins, used the day before
InitialDatabase ==
    [devices |-> { [Id |-> 1, App |-> "www", Token |-> 1, UserId |-> 1,
                    LastAccessTime |-> Now - 1],
                   [Id |-> 2, App |-> "www", Token |-> 2, UserId |-> 2,
                    LastAccessTime |-> Now - 1] },
     insertId |-> 3]

\* the bundle has not been executed
\* content of a FileCache entry that is not loaded: null
NotLoaded == "null"

NotExecuted ==
    [phase |-> "none", executions |-> 0, program |-> <<>>, cache |-> <<>>,
     stack |-> <<>>, calls |-> <<>>, imports |-> <<>>]

\* there is no second packer
NoPacker == [none |-> TRUE]

NoHost == [sb |-> <<>>, lineOffset |-> 0, generator |-> NullGenerator]

Pending == [kind |-> "pending"]
Returned(value) == [kind |-> "returned", value |-> value]
Threw(error) == [kind |-> "threw", error |-> error]

NeverRun == [kind |-> "none"]

\* a packer made for one of the inputs, its caller and the watch loop
InitPacker(inputs) ==
    /\ \E input \in inputs : files = input[1] /\ options = input[2]
    /\ lastHash = Null
    /\ lastModules = <<>>
    /\ pc = "idle"
    /\ modules = <<>>
    /\ emitIndex = 0
    /\ emitHost = NoHost
    /\ resultJs = Null
    /\ resultMap = Undefined
    /\ hasChange = FALSE
    /\ printed = <<>>
    /\ result = NeverRun
    /\ log = <<>>
    /\ disk = [js |-> NoFile, map |-> NoFile]
    /\ written = <<>>
    /\ runs = 0
    /\ faults = 0
    /\ edits = 0
    /\ edited = FALSE
    /\ start = [files |-> <<>>, previous |-> <<>>, okBundle |-> Null,
                hashedBundle |-> Null, result |-> NeverRun, log |-> <<>>,
                lastHash |-> Null, lastModules |-> <<>>,
                disk |-> [js |-> NoFile, map |-> NoFile],
                edited |-> FALSE]
    /\ okBundle = Null
    /\ hashedBundle = Null
    /\ regenerateRequested = TRUE
    /\ generations = <<>>
    /\ notifications = 0
    /\ ticks = 0
    /\ runtime = NotExecuted
    /\ userStorage = <<>>
    /\ userDeviceStorage = <<>>
    /\ database = InitialDatabase
    /\ received = <<>>
    /\ fileCache = [cacheKey |-> 0, content |-> NotLoaded]
    /\ webroot = "A"
    /\ clock = 0
    /\ gets = <<>>

InitWith(inputs) == InitPacker(inputs) /\ parked = NoPacker

Init == InitWith(Inputs)

(***************************************************************************)
(* run()                                                                   *)
(***************************************************************************)

\* the emitHost of run with the prefix emitted
FirstHost(entryModuleName) ==
    EmitRuntimePrefix(
        [sb |-> <<>>, lineOffset |-> 0,
         generator |-> IF options.sourceMap THEN NewGenerator(options.output)
                       ELSE NullGenerator],
        options, entryModuleName)

\* the module list is built and has no circular reference: the prefix is
\* emitted and the emission loop starts
RunBegins(b) ==
    /\ modules' = b.modules
    /\ emitHost' = FirstHost(b.modules[1].name)
    /\ emitIndex' = 1
    /\ pc' = "emit"
    /\ result' = Pending
    /\ log' = <<>>
    /\ UNCHANGED instanceVars

\* a failing run that drops the stored hash
RunFailsForgets(b) ==
    /\ modules' = b.modules
    /\ emitHost' = NoHost
    /\ emitIndex' = 0
    /\ pc' = "idle"
    /\ result' = Returned([success |-> FALSE])
    /\ log' = <<b.outcome>>
    /\ lastHash' = Null
    /\ UNCHANGED <<files, lastModules, disk>>

\* return { success: false } after 'invalid entry', after processModule
\* returned null, or after checkCircularReference returned true
RunFails(b) ==
    /\ modules' = b.modules
    /\ emitHost' = NoHost
    /\ emitIndex' = 0
    /\ pc' = "idle"
    /\ result' = Returned([success |-> FALSE])
    /\ log' = <<b.outcome>>
    /\ UNCHANGED instanceVars

\* run() from its call to the first emitModule: getSources, the entry check,
\* the traversal, the circular reference check, the prefix
RunStart ==
    /\ pc = "idle"
    /\ runs < MaxRuns
    /\ runs' = runs + 1
    /\ start' = [files |-> files, previous |-> start.files,
                 okBundle |-> okBundle, hashedBundle |-> hashedBundle,
                 result |-> result, log |-> log, edited |-> edited,
                 lastHash |-> lastHash, lastModules |-> lastModules,
                 disk |-> disk]
    /\ edited' = FALSE
    /\ written' = <<>>
    /\ resultJs' = Null
    /\ resultMap' = Undefined
    /\ hasChange' = FALSE
    /\ printed' = <<>>
    /\ LET b == BuildModules(options, files) IN
       IF b.outcome = "ok" THEN RunBegins(b) ELSE RunFails(b)
    /\ UNCHANGED <<options, faults, edits, okBundle, hashedBundle>>
    /\ UNCHANGED outsideVars

\* an emitModule whose promise never settles
EmitNextStalls ==
    /\ pc = "emit"
    /\ emitIndex <= Len(modules)
    /\ UNCHANGED vars

\* await this.emitModule(emitHost, $module) for the next module
EmitNext ==
    /\ pc = "emit"
    /\ emitIndex <= Len(modules)
    /\ ~(emitHost.generator # NullGenerator
         /\ modules[emitIndex].source.mapContent = Undefined)
    /\ emitHost' = EmitModule(emitHost, modules[emitIndex])
    /\ emitIndex' = emitIndex + 1
    /\ UNCHANGED <<instanceVars, envVars, pc, modules, resultJs, resultMap,
                   hasChange, printed, result, log, written, faults, okBundle,
                   hashedBundle>>
    /\ UNCHANGED outsideVars

\* emitModule with a generator and a Source without map: JSON.parse(undefined)
\* throws and run() rejects
EmitThrows ==
    /\ pc = "emit"
    /\ emitIndex <= Len(modules)
    /\ emitHost.generator # NullGenerator
    /\ modules[emitIndex].source.mapContent = Undefined
    /\ pc' = "idle"
    /\ result' = Threw("SyntaxError")
    /\ UNCHANGED <<instanceVars, envVars, runVars, log, written, faults,
                   okBundle, hashedBundle>>
    /\ UNCHANGED outsideVars

\* emitRuntimePostfix, resultJs and resultMap, and the call of the minifier
EmitPostfix ==
    /\ pc = "emit"
    /\ emitIndex > Len(modules)
    /\ emitHost' = EmitRuntimePostfix(emitHost)
    /\ resultJs' = emitHost'.sb
    /\ resultMap' = GeneratorText(emitHost'.generator)
    /\ pc' = IF options.minify THEN "minify" ELSE "commit"
    /\ UNCHANGED <<instanceVars, envVars, modules, emitIndex, hasChange, printed,
                   result, log, written, faults, okBundle, hashedBundle>>
    /\ UNCHANGED outsideVars

\* await minify(...) returns
MinifyReturns ==
    /\ pc = "minify"
    /\ resultJs' = MinifyCode(resultJs)
    /\ resultMap' = IF options.sourceMap THEN MinifyMap(resultMap) ELSE Undefined
    /\ pc' = "commit"
    /\ UNCHANGED <<instanceVars, envVars, modules, emitIndex, emitHost,
                   hasChange, printed, result, log, written, faults, okBundle,
                   hashedBundle>>
    /\ UNCHANGED outsideVars

\* a minifier failure that run() catches and reports as a failed result
MinifyThrowsCaught ==
    /\ pc = "minify"
    /\ faults < MaxFaults
    /\ faults' = faults + 1
    /\ pc' = "idle"
    /\ result' = Returned([success |-> FALSE])
    /\ UNCHANGED <<instanceVars, envVars, runVars, log, written, okBundle,
                   hashedBundle>>
    /\ UNCHANGED outsideVars

\* await minify(...) throws: nothing catches it
MinifyThrows ==
    /\ pc = "minify"
    /\ faults < MaxFaults
    /\ faults' = faults + 1
    /\ pc' = "idle"
    /\ result' = Threw("minify")
    /\ UNCHANGED <<instanceVars, envVars, runVars, log, written, okBundle,
                   hashedBundle>>
    /\ UNCHANGED outsideVars

\* console.log of cleanupMemoryFile: one line per removed file that is no map
RemovedLines(before, after) ==
    [k \in 1..(Len(SelectSeq(before, LAMBDA f : ~EndsWith(f.name, MAP)))
               - Len(SelectSeq(after, LAMBDA f : ~EndsWith(f.name, MAP)))) |->
        "- removed file"]

\* a commit that leaves the stored hash to the end of the writes
CommitKeepsHash ==
    /\ pc = "commit"
    /\ hasChange' = HasChange(Sha256(resultJs), lastHash)
    /\ lastHash' = lastHash
    /\ hashedBundle' = resultJs
    /\ files' = IF CleanupEnabled(options) THEN CleanupMemoryFile(modules, files)
                ELSE files
    /\ printed' = IF hasChange' THEN PrintResult(options, modules, lastModules)
                  ELSE <<>>
    /\ log' = log \o <<IF hasChange' THEN "completed with 1 asset"
                        ELSE "completed with no change">>
                  \o RemovedLines(files, files')
    /\ modules' = ClearModules(modules)
    /\ lastModules' = modules'
    /\ pc' = "writeJs"
    /\ UNCHANGED <<envVars, emitIndex, emitHost, resultJs, resultMap, result,
                   disk, written, faults, okBundle>>
    /\ UNCHANGED outsideVars

\* from the hash to the call of the first writeFile: hasChange, lastHash,
\* cleanupMemoryFile, the clearing of the contents, lastModules
Commit ==
    /\ pc = "commit"
    /\ hasChange' = HasChange(Sha256(resultJs), lastHash)
    /\ lastHash' = Sha256(resultJs)
    /\ hashedBundle' = resultJs
    /\ files' = IF CleanupEnabled(options) THEN CleanupMemoryFile(modules, files)
                ELSE files
    /\ printed' = IF hasChange' THEN PrintResult(options, modules, lastModules)
                  ELSE <<>>
    /\ log' = log \o <<IF hasChange' THEN "completed with 1 asset"
                        ELSE "completed with no change">>
                  \o RemovedLines(files, files')
    /\ modules' = ClearModules(modules)
    /\ lastModules' = modules'
    /\ pc' = "writeJs"
    /\ UNCHANGED <<envVars, emitIndex, emitHost, resultJs, resultMap, result,
                   disk, written, faults, okBundle>>
    /\ UNCHANGED outsideVars

\* a success result without hasChange
SuccessBare(change) == Returned([success |-> TRUE])

\* return { success: true, hasChange }
Success(change) == Returned([success |-> TRUE, hasChange |-> change])

\* a run that goes on to the map write without the bundle write
WriteJsSkipped ==
    /\ pc = "writeJs"
    /\ IF options.sourceMap
       THEN pc' = "writeMap" /\ UNCHANGED <<result, okBundle, disk, written>>
       ELSE /\ pc' = "idle"
            /\ result' = Success(hasChange)
            /\ okBundle' = resultJs
            /\ disk' = [disk EXCEPT !.js = resultJs]
            /\ written' = Append(written, "js")
    /\ UNCHANGED <<files, lastHash, lastModules, envVars, runVars, log, faults,
                   hashedBundle>>
    /\ UNCHANGED outsideVars

\* a write of the bundle that is skipped when hasChange is false
WriteJsOnChange ==
    /\ pc = "writeJs"
    /\ IF hasChange
       THEN disk' = [disk EXCEPT !.js = resultJs] /\ written' = Append(written, "js")
       ELSE UNCHANGED <<disk, written>>
    /\ IF options.sourceMap
       THEN pc' = "writeMap" /\ UNCHANGED <<result, okBundle>>
       ELSE pc' = "idle" /\ result' = Success(hasChange) /\ okBundle' = resultJs
    /\ UNCHANGED <<files, lastHash, lastModules, envVars, runVars, log, faults,
                   hashedBundle>>
    /\ UNCHANGED outsideVars

\* await fs.promises.writeFile(this.options.output, resultJs) completes
WriteJs ==
    /\ pc = "writeJs"
    /\ disk' = [disk EXCEPT !.js = resultJs]
    /\ written' = Append(written, "js")
    /\ IF options.sourceMap
       THEN pc' = "writeMap" /\ UNCHANGED <<result, okBundle>>
       ELSE pc' = "idle" /\ result' = Success(hasChange) /\ okBundle' = resultJs
    /\ UNCHANGED <<files, lastHash, lastModules, envVars, runVars, log, faults,
                   hashedBundle>>
    /\ UNCHANGED outsideVars

\* await fs.promises.writeFile(this.options.output + '.map', resultMap) completes
WriteMap ==
    /\ pc = "writeMap"
    /\ disk' = [disk EXCEPT !.map = resultMap]
    /\ written' = Append(written, "map")
    /\ pc' = "idle"
    /\ result' = Success(hasChange)
    /\ okBundle' = resultJs
    /\ UNCHANGED <<files, lastHash, lastModules, envVars, runVars, log, faults,
                   hashedBundle>>
    /\ UNCHANGED outsideVars

\* a writeFile rejects: run() rejects after lastHash and lastModules are set
WriteThrows ==
    /\ pc \in {"writeJs", "writeMap"}
    /\ faults < MaxFaults
    /\ faults' = faults + 1
    /\ pc' = "idle"
    /\ result' = Threw("writeFile")
    /\ UNCHANGED <<instanceVars, envVars, runVars, log, written, okBundle,
                   hashedBundle>>
    /\ UNCHANGED outsideVars

Next ==
    \/ RunStart
    \/ EmitNext
    \/ EmitThrows
    \/ EmitPostfix
    \/ MinifyReturns
    \/ MinifyThrows
    \/ Commit
    \/ WriteJs
    \/ WriteMap
    \/ WriteThrows

Spec == Init /\ [][Next]_vars

\* a step of a run that was called: the promises run() awaits (the source
\* map consumer, the minifier, the file writes) settle, and a settled promise
\* resumes the function
RunStep ==
    \/ EmitNext
    \/ EmitThrows
    \/ EmitPostfix
    \/ MinifyReturns
    \/ MinifyThrows
    \/ Commit
    \/ WriteJs
    \/ WriteMap
    \/ WriteThrows

\* run() called any number of times, every awaited promise settling
SpecSettles == Init /\ [][Next]_vars /\ WF_vars(RunStep)

(***************************************************************************)
(* Watch mode: between two runs the caller changes its list                *)
(***************************************************************************)

\* what an edit leaves alone
editFrame ==
    <<options, lastHash, lastModules, pc, runVars, result, log, disk, written,
      runs, faults, start, okBundle, hashedBundle, outsideVars>>

\* the caller replaces the content of a file
EditContent ==
    /\ pc = "idle"
    /\ edits < MaxEdits
    /\ \E i \in 1..Len(files) :
        \E c \in WatchContents(files[i].name) \ {files[i].content} :
            files' = [files EXCEPT ![i].content = c]
    /\ edits' = edits + 1
    /\ edited' = TRUE
    /\ UNCHANGED editFrame

\* the caller adds a file
AddFile ==
    /\ pc = "idle"
    /\ edits < MaxEdits
    /\ \E n \in WatchNames :
        /\ \A i \in 1..Len(files) : files[i].name # n
        /\ \E c \in WatchContents(n) :
            files' = Append(files, [name |-> n, content |-> c])
    /\ edits' = edits + 1
    /\ edited' = TRUE
    /\ UNCHANGED editFrame

\* the caller removes a file
RemoveFile ==
    /\ pc = "idle"
    /\ edits < MaxEdits
    /\ \E i \in 1..Len(files) :
        files' = SubSeq(files, 1, i - 1) \o SubSeq(files, i + 1, Len(files))
    /\ edits' = edits + 1
    /\ edited' = TRUE
    /\ UNCHANGED editFrame

InitWatch == InitWith(WatchInputs)

NextWatch == Next \/ EditContent \/ AddFile \/ RemoveFile

SpecWatch == InitWatch /\ [][NextWatch]_vars

(***************************************************************************)
(* The awaits of run(): while run() waits for emitModule, for the minifier *)
(* or for a writeFile, other code of the process runs, here the caller     *)
(* changing its list                                                       *)
(***************************************************************************)

\* positions that would also let other code run inside the commit
YieldPointsAndCommit == {"emit", "minify", "commit", "writeJs", "writeMap"}

\* the positions at which run() stands at an await
YieldPoints == {"emit", "minify", "writeJs", "writeMap"}

\* the lists one change of the caller makes of a list: a content replaced,
\* a file removed, a file added
Edited(list) ==
    UNION { { [list EXCEPT ![i].content = c] :
                c \in WatchContents(list[i].name) \ {list[i].content} } :
            i \in 1..Len(list) }
    \cup { SubSeq(list, 1, i - 1) \o SubSeq(list, i + 1, Len(list)) :
             i \in 1..Len(list) }
    \cup UNION { { Append(list, [name |-> n, content |-> c]) :
                     c \in WatchContents(n) } :
                 n \in WatchNames \ FileNames(list) }

\* the caller changes its list while run() waits
EditWhileSuspended ==
    /\ pc \in YieldPoints
    /\ edits < MaxEdits
    /\ files' \in Edited(files)
    /\ edits' = edits + 1
    /\ edited' = TRUE
    /\ UNCHANGED editFrame

\* the packers whose runs the caller's changes interleave with
YieldInputs ==
    { input \in WatchInputs : "cleanupFiles" \notin DOMAIN input[2] }

InitYield == InitWith(YieldInputs)

NextYield == NextWatch \/ EditWhileSuspended

SpecYield == InitYield /\ [][NextYield]_vars


(***************************************************************************)
(* Two packers, one per build target, over one file list: their runs are   *)
(* serialized, each run completes before the other packer runs             *)
(***************************************************************************)

FileOutLib == <<"/", "o", "u", "t", "l", "i", "b">>

\* the lists the two targets share: three scripts, with the maps of the
\* first target's modules or with one of them
SharedLists ==
    { ListOf(<<FileE, FileA, FileLib, FileE \o MAP, FileA \o MAP>>,
             <<Req(RawA) \o Stmt, Stmt, Req(RawUpA),
               <<"1", "0", "1", "0">>, map>>) :
        map \in {Absent, <<"1", "0", "1", "0">>} }

\* the first target: entry /e.js, cleanupFiles false
SharedOptions ==
    { o \in EmitOptions :
        /\ "cleanupFiles" \in DOMAIN o /\ ~o.cleanupFiles
        /\ o.type = "app" /\ ~o.shebang }

\* the second target: entry /lib/index.js, cleanupFiles false
OtherOptions ==
    [type |-> "lib", entry |-> FileLib, sourceMap |-> FALSE, output |-> FileOutLib,
     minify |-> FALSE, shebang |-> FALSE, cleanupFiles |-> FALSE]

\* the state of the packer instance whose run() is or was last called
Instance ==
    [options |-> options, lastHash |-> lastHash, lastModules |-> lastModules,
     modules |-> modules, emitIndex |-> emitIndex, emitHost |-> emitHost,
     resultJs |-> resultJs, resultMap |-> resultMap, hasChange |-> hasChange,
     printed |-> printed, result |-> result, log |-> log, disk |-> disk,
     written |-> written, start |-> start, okBundle |-> okBundle,
     hashedBundle |-> hashedBundle]

\* mypack(options): a packer that has not run
NewPacker(o) ==
    [options |-> o, lastHash |-> Null, lastModules |-> <<>>,
     modules |-> <<>>, emitIndex |-> 0, emitHost |-> NoHost,
     resultJs |-> Null, resultMap |-> Undefined, hasChange |-> FALSE,
     printed |-> <<>>, result |-> NeverRun, log |-> <<>>,
     disk |-> [js |-> NoFile, map |-> NoFile],
     written |-> <<>>,
     start |-> [files |-> <<>>, previous |-> <<>>, okBundle |-> Null,
                hashedBundle |-> Null, result |-> NeverRun, log |-> <<>>,
                lastHash |-> Null, lastModules |-> <<>>,
                disk |-> [js |-> NoFile, map |-> NoFile],
                edited |-> FALSE],
     okBundle |-> Null, hashedBundle |-> Null]

\* between two complete runs the caller turns to its other packer
Switch ==
    /\ pc = "idle"
    /\ parked # NoPacker
    /\ parked' = Instance
    /\ options' = parked.options
    /\ lastHash' = parked.lastHash
    /\ lastModules' = parked.lastModules
    /\ modules' = parked.modules
    /\ emitIndex' = parked.emitIndex
    /\ emitHost' = parked.emitHost
    /\ resultJs' = parked.resultJs
    /\ resultMap' = parked.resultMap
    /\ hasChange' = parked.hasChange
    /\ printed' = parked.printed
    /\ result' = parked.result
    /\ log' = parked.log
    /\ disk' = parked.disk
    /\ written' = parked.written
    /\ start' = parked.start
    /\ okBundle' = parked.okBundle
    /\ hashedBundle' = parked.hashedBundle
    /\ UNCHANGED <<files, pc, runs, faults, edits, edited, watchVars, otherVars>>

InitShared ==
    /\ InitPacker(SharedLists \X SharedOptions)
    /\ parked = NewPacker(OtherOptions)

NextShared == Next \/ Switch

SpecShared == InitShared /\ [][NextShared]_vars

(***************************************************************************)
(* The emitted runtime: what node does with the text emitRuntimePrefix,    *)
(* emitModule and emitRuntimePostfix wrote. The object literal is read     *)
(* back from the text of the bundle; a module function runs the import     *)
(* calls of its body in order                                              *)
(***************************************************************************)

RECURSIVE QuotedFrom(_, _)
\* the text of s from index i up to the next single quote
QuotedFrom(s, i) ==
    IF i > Len(s) \/ s[i] = "'" THEN <<>>
    ELSE <<s[i]>> \o QuotedFrom(s, i + 1)

\* modules[name] of the emitted object literal: of two entries with one key
\* the later one stays
RuntimeLookup(list, name) ==
    list[CHOOSE i \in 1..Len(list) :
             /\ list[i].name = name
             /\ \A j \in (i + 1)..Len(list) : list[j].name # name]

\* the 0-based indexes at which `': (exports, myimport) => {\n` stands
KeyHeads(bundle) ==
    { p \in 0..(Len(bundle) - Len(ModuleHead)) : HasAt(bundle, p, ModuleHead) }

\* the i-th of them
KeyHead(bundle, i) ==
    CHOOSE p \in KeyHeads(bundle) :
        Cardinality({ q \in KeyHeads(bundle) : q < p }) = i - 1

\* the 1-based index of the quote that opens the key whose head is at p
KeyQuote(bundle, p) ==
    CHOOSE q \in 1..p :
        bundle[q] = "'" /\ \A j \in (q + 1)..p : bundle[j] # "'"

\* the function body of the i-th entry of the object literal
BodyOf(bundle, i) ==
    LET n == Cardinality(KeyHeads(bundle))
        from == KeyHead(bundle, i) + Len(ModuleHead)
        to == IF i < n
              THEN KeyQuote(bundle, KeyHead(bundle, i + 1)) - 1 - Len(ModuleTail)
              ELSE Len(bundle) - Len(Postfix) - Len(ModuleTail)
    IN  SubSeq(bundle, from + 1, to)

RECURSIVE UntilQuote(_, _)
\* the characters from the 1-based index i up to the next double quote
UntilQuote(s, i) ==
    IF i > Len(s) \/ s[i] = "\"" THEN <<>>
    ELSE <<s[i]>> \o UntilQuote(s, i + 1)

RECURSIVE ImportNames(_, _)
\* the arguments of the myimport("...") calls of a function body from the
\* 0-based index i on, in the order in which the body makes them
ImportNames(body, i) ==
    IF i >= Len(body) THEN <<>>
    ELSE IF HasAt(body, i, ImportOpen)
         THEN LET name == UntilQuote(body, i + Len(ImportOpen) + 1) IN
              <<name>> \o ImportNames(body, i + Len(ImportOpen) + Len(name))
         ELSE ImportNames(body, i + 1)

\* the argument of the call of the loader: the text between the quotes
\* that follow `... return mycache[modulename]; })(`
EntryArgument(bundle) ==
    LET p == CHOOSE q \in 0..(Len(bundle) - Len(Loader)) : HasAt(bundle, q, Loader)
    IN  QuotedFrom(bundle, p + Len(Loader) + 1)

\* the program of a bundle: the loader's argument and the object literal
ProgramOf(bundle) ==
    [entry |-> EntryArgument(bundle),
     modules |-> [i \in 1..Cardinality(KeyHeads(bundle)) |->
                     [name |-> SubSeq(bundle,
                                  KeyQuote(bundle, KeyHead(bundle, i)) + 1,
                                  KeyHead(bundle, i)),
                      imports |-> ImportNames(BodyOf(bundle, i), 0)]]]

\* a loader that takes no name to be in the cache
InCacheNever(cache, modulename) == FALSE

\* modulename in mycache
InCache(cache, modulename) == Includes(cache, modulename)

\* mycache[modulename]: the objects are numbered as they are created
CacheObject(cache, modulename) ==
    CHOOSE i \in 1..Len(cache) :
        cache[i] = modulename /\ \A j \in 1..(i - 1) : cache[j] # modulename

\* modulename in modules
HasKey(list, modulename) == \E i \in 1..Len(list) : list[i].name = modulename

\* node starts the bundle the packer wrote: const mycache = {}, and the
\* loader is about to be called with the entry name
Execute ==
    /\ runtime.phase \in {"none", "done", "threw"}
    /\ runtime.executions < MaxExecutions
    /\ disk.js # NoFile
    /\ ~options.minify
    /\ runtime' =
           [phase |-> "running",
            executions |-> runtime.executions + 1,
            program |-> ProgramOf(disk.js),
            cache |-> <<>>,
            stack |-> <<[name |-> Null,
                         imports |-> <<ProgramOf(disk.js).entry>>,
                         pos |-> 1]>>,
            calls |-> <<>>,
            imports |-> <<>>]
    /\ UNCHANGED <<packerVars, watchVars, parked, authVars, contentVars>>

\* myrequire(modulename), called by the bundle's last line or by a module
\* function: a cached name returns its object; another name gets its cache
\* slot and then its function is called
Require ==
    /\ runtime.phase = "running"
    /\ LET depth == Len(runtime.stack)
           frame == runtime.stack[depth]
       IN  /\ frame.pos <= Len(frame.imports)
           /\ LET modulename == frame.imports[frame.pos] IN
              IF InCache(runtime.cache, modulename)
              THEN runtime' =
                       [runtime EXCEPT
                           !.imports = Append(@,
                               [name |-> modulename,
                                object |-> CacheObject(runtime.cache, modulename)]),
                           !.stack[depth].pos = @ + 1]
              ELSE IF ~HasKey(runtime.program.modules, modulename)
              THEN runtime' =
                       [runtime EXCEPT !.cache = Append(@, modulename),
                                       !.phase = "threw"]
              ELSE runtime' =
                       [runtime EXCEPT
                           !.cache = Append(@, modulename),
                           !.calls = Append(@, modulename),
                           !.stack = Append(@,
                               [name |-> modulename,
                                imports |-> RuntimeLookup(runtime.program.modules,
                                                          modulename).imports,
                                pos |-> 1])]
    /\ UNCHANGED <<packerVars, watchVars, parked, authVars, contentVars>>

\* a module function ends and myrequire returns mycache[modulename] to its
\* caller; the return to the bundle's last line ends the execution
FunctionReturns ==
    /\ runtime.phase = "running"
    /\ LET depth == Len(runtime.stack)
           frame == runtime.stack[depth]
       IN  /\ frame.pos > Len(frame.imports)
           /\ runtime' =
                  IF depth = 1
                  THEN [runtime EXCEPT !.phase = "done", !.stack = <<>>]
                  ELSE [runtime EXCEPT
                           !.imports = Append(@,
                               [name |-> frame.name,
                                object |-> CacheObject(runtime.cache, frame.name)]),
                           !.stack = [k \in 1..(depth - 1) |->
                                         IF k = depth - 1
                                         THEN [@[k] EXCEPT !.pos = @ + 1]
                                         ELSE @[k]]]
    /\ UNCHANGED <<packerVars, watchVars, parked, authVars, contentVars>>

\* the lists that are packed and executed: the entry imports /a.js twice, or
\* /a.js and the library that imports /a.js too; the map of /a.js is there
\* or not
RuntimeLists ==
    { ListOf(<<FileE, FileA, FileLib, FileE \o MAP, FileA \o MAP, FileLib \o MAP>>,
             <<e, Stmt, Req(RawUpA),
               <<"1", "0", "1", "0">>, map, <<"1", "0", "1", "0">>>>) :
        e \in { Req(RawA) \o Req(RawLib), Req(RawA) \o Req(RawAJs) \o Stmt },
        map \in { Absent, <<"1", "0", "1", "0">> } }

RuntimeOptions == { o \in PlainOptions({FileE}) : ~o.shebang \/ o.type = "app" }

InitRuntime == InitWith(RuntimeLists \X RuntimeOptions)

NextRuntime == Next \/ Execute \/ Require \/ FunctionReturns

SpecRuntime == InitRuntime /\ [][NextRuntime]_vars


(***************************************************************************)
(* CodeGenerator.watch: a flag set by the file watcher and polled by an    *)
(* interval timer that calls generate() without awaiting it                *)
(***************************************************************************)

\* the generate() call a tick starts, up to its first await (fs.mkdir)
NewGeneration == [phase |-> "mkdir", after |-> notifications, tick |-> ticks + 1]

\* the phases a generate() call goes through: the awaits of mkdir, of
\* loadFile and of the writes, then its result. loadFile stands in a try
\* block and its failure is the result success: false; mkdir and the writes
\* do not, and their failure rejects the promise generate() returned
NextPhases(phase) ==
    IF phase = "mkdir" THEN {"load", "rejected"}
    ELSE IF phase = "load" THEN {"write", "failed"}
    ELSE IF phase = "write" THEN {"done", "rejected"}
    ELSE {}

\* process.on('unhandledRejection', ...) has called process.exit: watch()
\* attaches no handler to the promise of generate()
Exited == \E i \in 1..Len(generations) : generations[i].phase = "rejected"

\* the callback of fsnp.watch
Notify ==
    /\ ~Exited
    /\ notifications < MaxNotifications
    /\ ticks < MaxTicks
    /\ notifications' = notifications + 1
    /\ regenerateRequested' = TRUE
    /\ UNCHANGED <<generations, ticks, packerVars, parked, otherVars>>

\* a poll tick that clears the flag and starts nothing
TickClearsOnly ==
    /\ ~Exited
    /\ ticks < MaxTicks
    /\ ticks' = ticks + 1
    /\ regenerateRequested' = FALSE
    /\ UNCHANGED <<generations, notifications, packerVars, parked, otherVars>>

\* the callback of setInterval
Tick ==
    /\ ~Exited
    /\ ticks < MaxTicks
    /\ ticks' = ticks + 1
    /\ IF regenerateRequested
       THEN /\ regenerateRequested' = FALSE
            /\ generations' = Append(generations, NewGeneration)
       ELSE UNCHANGED <<regenerateRequested, generations>>
    /\ UNCHANGED <<notifications, packerVars, parked, otherVars>>

\* an await of a generate() call completes
GenerateStep ==
    /\ ~Exited
    /\ \E i \in 1..Len(generations) :
           \E next \in NextPhases(generations[i].phase) :
               generations' = [generations EXCEPT ![i].phase = next]
    /\ UNCHANGED <<regenerateRequested, notifications, ticks, packerVars, parked,
                   otherVars>>

\* the packer is not run while the code generator is looked at
InitCodegen == InitWith({<<ScenarioFiles, CHOOSE o \in ScenarioOptions : TRUE>>})

NextCodegen == Notify \/ Tick \/ GenerateStep

SpecCodegen == InitCodegen /\ [][NextCodegen]_vars

\* the timer fires every 3007 ms while the process lives, and the file
\* system answers every call of a generation
SpecCodegenLive ==
    InitCodegen /\ [][NextCodegen]_vars /\ WF_vars(Tick) /\ WF_vars(GenerateStep)


(***************************************************************************)
(* server-core/auth.ts: handleLogin, authenticate, handleRemoveDevice and  *)
(* the admin command expire-device. A handler runs from one await to the   *)
(* next in one step; a query is executed by the database when it returns;  *)
(* the queries of different requests return in any order                   *)
(***************************************************************************)

\* the lower case letter of a letter of the user names
Lower(c) ==
    IF c = "A" THEN "a" ELSE IF c = "L" THEN "l"
    ELSE IF c = "B" THEN "b" ELSE IF c = "O" THEN "o" ELSE c

\* a name with its letters in lower case
Fold(name) == [k \in 1..Len(name) |-> Lower(name[k])]

\* the rank of a letter in the alphabet
Rank(c) == IF c = "a" THEN 1 ELSE IF c = "b" THEN 2 ELSE IF c = "l" THEN 12 ELSE 15

RECURSIVE CollatorCompare(_, _)
\* Intl.Collator('en', { sensitivity: 'base' }).compare(x, y): 0 when the
\* names are equal but for case, negative or positive otherwise
CollatorCompare(x, y) ==
    IF x = <<>> /\ y = <<>> THEN 0
    ELSE IF x = <<>> THEN -1
    ELSE IF y = <<>> THEN 1
    ELSE IF Rank(Lower(Head(x))) < Rank(Lower(Head(y))) THEN -1
    ELSE IF Rank(Lower(Head(x))) > Rank(Lower(Head(y))) THEN 1
    ELSE CollatorCompare(Tail(x), Tail(y))

\* a JavaScript number taken as a condition
Truthy(n) == n # 0

\* the one-time password the authenticator shows for a secret
Otp(secret) == <<"otp", secret>>

\* authenticator.check(password, token)
AuthenticatorCheck(password, token) == password = Otp(token)

\* array.findIndex(predicate), given what the predicate returns for each
\* element: the 1-based index, 0 for -1
FindIndex(tests) ==
    IF \E k \in 1..Len(tests) : tests[k]
    THEN CHOOSE k \in 1..Len(tests) :
             tests[k] /\ \A j \in 1..(k - 1) : ~tests[j]
    ELSE 0

\* array.splice(array.findIndex(predicate), 1): splice(-1, 1) removes the
\* last element
SpliceFound(list, tests) ==
    LET k == IF FindIndex(tests) = 0 THEN Len(list) ELSE FindIndex(tests)
    IN  [j \in 1..(Len(list) - (IF Len(list) = 0 THEN 0 ELSE 1)) |->
            IF j < k THEN list[j] ELSE list[j + 1]]

\* SELECT ... FROM `UserDevice` WHERE `Token` = ?
SelectDeviceByToken(token) == { d \in database.devices : d.Token = token }

\* SELECT ... FROM `UserDevice` WHERE `Id` = ?
SelectDeviceById(id) == { d \in database.devices : d.Id = id }

\* SELECT ... FROM `User` WHERE `Name` = ?, under the table's collation
SelectUserByName(name) == { u \in UserTable : Fold(u.Name) = Fold(name) }

\* SELECT ... FROM `User` WHERE `Id` = ?
SelectUserById(id) == { u \in UserTable : u.Id = id }

\* DELETE FROM `UserDevice` WHERE `Id` = ?
DeleteDevice(id) ==
    [database EXCEPT !.devices = { d \in @ : d.Id # id }]

\* UPDATE `UserDevice` SET `LastAccessTime` = ? WHERE `Id` = ?
UpdateLastAccessTime(id, time) ==
    [database EXCEPT !.devices =
        { IF d.Id = id THEN [d EXCEPT !.LastAccessTime = time] ELSE d : d \in @ }]

None == [none |-> TRUE]

\* a request or command as the server holds it: where it waits, what it
\* asked, its userDevice and ctx.state.user, how it ended, and which of the
\* others had ended when it came
NewRequest(kind, at, token, username, password, deviceId) ==
    [kind |-> kind, pc |-> at, token |-> token, username |-> username,
     password |-> password, deviceId |-> deviceId, device |-> None,
     user |-> None, checked |-> None, outcome |-> "pending",
     after |-> { j \in 1..Len(received) : received[j].pc = "done" }]

\* the request ends: a response or a thrown MyError
Ended(r, outcome) == [r EXCEPT !.pc = "done", !.outcome = outcome]

\* handleLogin from the token check on
LoginCheck(r, user) ==
    IF ~AuthenticatorCheck(r.password, user.Token)
    THEN Ended(r, "unknown user or incorrect password")
    ELSE [r EXCEPT !.pc = "loginInsert", !.checked = user,
                   !.device = [Id |-> 0, App |-> "www", Token |-> 10 + Len(received),
                               UserId |-> user.Id, LastAccessTime |-> Now]]

\* POST /login arrives: handleLogin up to the query or the INSERT
ReceiveLogin ==
    /\ Len(received) < MaxRequests
    /\ \E username \in {<<"A", "L">>, <<"b", "o">>},
          password \in {Otp("secret1"), Otp("secret2")} :
          LET r == NewRequest("login", "loginSelect", 0, username, password, 0)
              k == FindIndex([j \in 1..Len(userStorage) |->
                         Truthy(CollatorCompare(userStorage[j].Name, username))])
          IN  received' = Append(received,
                  IF k # 0 THEN LoginCheck(r, userStorage[k]) ELSE r)
    /\ UNCHANGED <<userStorage, userDeviceStorage, database>>
    /\ UNCHANGED <<packerVars, watchVars, parked, runtime, contentVars>>

\* the SELECT of handleLogin returns
LoginSelectReturns ==
    /\ \E i \in 1..Len(received) :
          /\ received[i].pc = "loginSelect"
          /\ LET value == SelectUserByName(received[i].username) IN
             IF value = {}
             THEN /\ received' = [received EXCEPT ![i] =
                         Ended(@, "unknonw user or incorrect password")]
                  /\ UNCHANGED userStorage
             ELSE LET user == CHOOSE u \in value : TRUE IN
                  /\ userStorage' = Append(userStorage, user)
                  /\ received' = [received EXCEPT ![i] = LoginCheck(@, user)]
    /\ UNCHANGED <<userDeviceStorage, database>>
    /\ UNCHANGED <<packerVars, watchVars, parked, runtime, contentVars>>

\* the INSERT of handleLogin returns: the device is cached and the access
\* token sent
LoginInsertReturns ==
    /\ \E i \in 1..Len(received) :
          /\ received[i].pc = "loginInsert"
          /\ LET userDevice == [received[i].device EXCEPT !.Id = database.insertId] IN
             /\ database' = [devices |-> database.devices \cup {userDevice},
                             insertId |-> database.insertId + 1]
             /\ userDeviceStorage' = Append(userDeviceStorage, userDevice)
             /\ received' = [received EXCEPT ![i] =
                    Ended([@ EXCEPT !.device = userDevice,
                                    !.token = userDevice.Token], "200")]
    /\ UNCHANGED userStorage
    /\ UNCHANGED <<packerVars, watchVars, parked, runtime, contentVars>>

\* handleRemoveDevice once it has its userDevice: the owner checks, the
\* splice, and the DELETE it then waits for
RemoveChecked(r, userDevice, storage) ==
    IF userDevice.UserId # r.user.id \/ userDevice.App # "www"
    THEN [req |-> Ended(r, "not my device"), devices |-> storage]
    ELSE [req |-> [r EXCEPT !.pc = "removeDelete"],
          devices |-> SpliceFound(storage,
                      [j \in 1..Len(storage) |-> storage[j].Id = r.deviceId])]

\* the handler that follows authenticate, with ctx.state.user set
Dispatch(r, storage) ==
    IF r.kind = "credential"
    THEN [req |-> Ended(r, "200"), devices |-> storage]
    ELSE LET k == FindIndex([j \in 1..Len(storage) |-> storage[j].Id = r.deviceId]) IN
         IF k = 0
         THEN [req |-> [r EXCEPT !.pc = "removeSelect"], devices |-> storage]
         ELSE RemoveChecked(r, storage[k], storage)

\* authenticate once it has its userDevice, the k-th of the storage: the
\* app and expiry checks, the new LastAccessTime, and the query it waits for
DeviceChecked(r, storage, k) ==
    LET userDevice == storage[k] IN
    IF userDevice.App # "www"
    THEN [req |-> Ended(r, "unauthorized"), devices |-> storage]
    ELSE IF userDevice.LastAccessTime + 30 < Now
    THEN [req |-> [r EXCEPT !.pc = "authDelete", !.device = userDevice],
          devices |-> storage]
    ELSE [req |-> [r EXCEPT !.pc = "authUpdate",
                            !.device = [userDevice EXCEPT !.LastAccessTime = Now]],
          devices |-> [storage EXCEPT ![k].LastAccessTime = Now]]

\* a request with an access token arrives: GET /user-credential or
\* DELETE /user-devices/:id; authenticate up to its first query
ReceiveRequest ==
    /\ Len(received) < MaxRequests
    /\ \E kind \in {"credential", "remove"}, token \in {1, 2} :
          LET r == NewRequest(kind, "authSelect", token, <<>>, <<>>,
                              IF kind = "remove" THEN 1 ELSE 0)
              k == FindIndex([j \in 1..Len(userDeviceStorage) |->
                                 userDeviceStorage[j].Token = token])
              step == DeviceChecked(r, userDeviceStorage, k)
          IN  IF k = 0
              THEN /\ received' = Append(received, r)
                   /\ UNCHANGED userDeviceStorage
              ELSE /\ received' = Append(received, step.req)
                   /\ userDeviceStorage' = step.devices
    /\ UNCHANGED <<userStorage, database>>
    /\ UNCHANGED <<packerVars, watchVars, parked, runtime, contentVars>>

\* the SELECT by token of authenticate returns
AuthSelectReturns ==
    /\ \E i \in 1..Len(received) :
          /\ received[i].pc = "authSelect"
          /\ LET value == SelectDeviceByToken(received[i].token) IN
             IF value = {}
             THEN /\ received' = [received EXCEPT ![i] = Ended(@, "unauthorized")]
                  /\ UNCHANGED userDeviceStorage
             ELSE LET pushed == Append(userDeviceStorage, CHOOSE d \in value : TRUE)
                      step == DeviceChecked(received[i], pushed, Len(pushed))
                  IN  /\ received' = [received EXCEPT ![i] = step.req]
                      /\ userDeviceStorage' = step.devices
    /\ UNCHANGED <<userStorage, database>>
    /\ UNCHANGED <<packerVars, watchVars, parked, runtime, contentVars>>

\* the DELETE of an expired device returns: the splice and the rejection
AuthDeleteReturns ==
    /\ \E i \in 1..Len(received) :
          /\ received[i].pc = "authDelete"
          /\ database' = DeleteDevice(received[i].device.Id)
          /\ userDeviceStorage' =
                SpliceFound(userDeviceStorage,
                    [j \in 1..Len(userDeviceStorage) |->
                        userDeviceStorage[j].Id = received[i].device.Id])
          /\ received' = [received EXCEPT ![i] = Ended(@, "authorization expired")]
    /\ UNCHANGED userStorage
    /\ UNCHANGED <<packerVars, watchVars, parked, runtime, contentVars>>

\* ctx.state.user of a user record and the request's device
StateUser(user, r) == [id |-> user.Id, name |-> user.Name, deviceId |-> r.device.Id]

\* the UPDATE of LastAccessTime returns: the user is looked for with
\* u => u.Id = userDevice.UserId, an assignment whose value is the UserId
AuthUpdateReturns ==
    /\ \E i \in 1..Len(received) :
          /\ received[i].pc = "authUpdate"
          /\ database' = UpdateLastAccessTime(received[i].device.Id,
                                              received[i].device.LastAccessTime)
          /\ IF userStorage # <<>> /\ Truthy(received[i].device.UserId)
             THEN LET users == [userStorage EXCEPT ![1].Id = received[i].device.UserId]
                      step == Dispatch([received[i] EXCEPT
                                  !.user = StateUser(users[1], received[i])],
                                  userDeviceStorage)
                  IN  /\ userStorage' = users
                      /\ received' = [received EXCEPT ![i] = step.req]
                      /\ userDeviceStorage' = step.devices
             ELSE /\ received' = [received EXCEPT ![i].pc = "authUser"]
                  /\ UNCHANGED <<userStorage, userDeviceStorage>>
    /\ UNCHANGED <<packerVars, watchVars, parked, runtime, contentVars>>

\* the SELECT of the user by id returns: authenticate ends and the handler runs
AuthUserReturns ==
    /\ \E i \in 1..Len(received) :
          /\ received[i].pc = "authUser"
          /\ LET user == CHOOSE u \in SelectUserById(received[i].device.UserId) : TRUE
                 step == Dispatch([received[i] EXCEPT
                             !.user = StateUser(user, received[i])],
                             userDeviceStorage)
             IN  /\ userStorage' = Append(userStorage, user)
                 /\ received' = [received EXCEPT ![i] = step.req]
                 /\ userDeviceStorage' = step.devices
    /\ UNCHANGED database
    /\ UNCHANGED <<packerVars, watchVars, parked, runtime, contentVars>>

\* the SELECT by id of handleRemoveDevice returns
RemoveSelectReturns ==
    /\ \E i \in 1..Len(received) :
          /\ received[i].pc = "removeSelect"
          /\ LET value == SelectDeviceById(received[i].deviceId) IN
             IF value = {}
             THEN /\ received' = [received EXCEPT ![i] = Ended(@, "invalid device id")]
                  /\ UNCHANGED userDeviceStorage
             ELSE LET userDevice == CHOOSE d \in value : TRUE
                      step == RemoveChecked(received[i], userDevice,
                                            Append(userDeviceStorage, userDevice))
                  IN  /\ received' = [received EXCEPT ![i] = step.req]
                      /\ userDeviceStorage' = step.devices
    /\ UNCHANGED <<userStorage, database>>
    /\ UNCHANGED <<packerVars, watchVars, parked, runtime, contentVars>>

\* the DELETE of handleRemoveDevice returns: status 204
RemoveDeleteReturns ==
    /\ \E i \in 1..Len(received) :
          /\ received[i].pc = "removeDelete"
          /\ database' = DeleteDevice(received[i].deviceId)
          /\ received' = [received EXCEPT ![i] = Ended(@, "204")]
    /\ UNCHANGED <<userStorage, userDeviceStorage>>
    /\ UNCHANGED <<packerVars, watchVars, parked, runtime, contentVars>>

\* the admin command expire-device arrives for the first device
AdminExpireDevice ==
    /\ Len(received) < MaxRequests
    /\ received' = Append(received,
           NewRequest("expire", "expireUpdate", 0, <<>>, <<>>, 1))
    /\ UNCHANGED <<userStorage, userDeviceStorage, database>>
    /\ UNCHANGED <<packerVars, watchVars, parked, runtime, contentVars>>

\* the UPDATE of handleCommand returns: the row's LastAccessTime is 1970
ExpireUpdateReturns ==
    /\ \E i \in 1..Len(received) :
          /\ received[i].pc = "expireUpdate"
          /\ database' = UpdateLastAccessTime(received[i].deviceId, 0)
          /\ received' = [received EXCEPT ![i] = Ended(@, "done")]
    /\ UNCHANGED <<userStorage, userDeviceStorage>>
    /\ UNCHANGED <<packerVars, watchVars, parked, runtime, contentVars>>

\* the packer is not run while the server is looked at
InitAuth == InitWith({<<ScenarioFiles, CHOOSE o \in ScenarioOptions : TRUE>>})

NextAuth ==
    \/ ReceiveLogin
    \/ LoginSelectReturns
    \/ LoginInsertReturns
    \/ ReceiveRequest
    \/ AuthSelectReturns
    \/ AuthDeleteReturns
    \/ AuthUpdateReturns
    \/ AuthUserReturns
    \/ RemoveSelectReturns
    \/ RemoveDeleteReturns
    \/ AdminExpireDevice
    \/ ExpireUpdateReturns

SpecAuth == InitAuth /\ [][NextAuth]_vars


(***************************************************************************)
(* server-core/content.ts: the cached page /www/ (main/home.html, reload   *)
(* key home), handleRequestContent and handleAdminReloadStatic. The cache  *)
(* key is the time in whole seconds of the server's start or of a reload   *)
(***************************************************************************)

\* a page that is not on the disk
NoPage == "missing"

\* the build script writes or removes main/home.html
WriteFile ==
    /\ \E content \in {"A", "B", NoPage} :
          /\ content # webroot
          /\ webroot' = content
    /\ UNCHANGED <<fileCache, clock, gets>>
    /\ UNCHANGED <<packerVars, watchVars, parked, runtime, authVars>>

\* a second passes
Second ==
    /\ clock < MaxClock
    /\ clock' = clock + 1
    /\ UNCHANGED <<fileCache, webroot, gets>>
    /\ UNCHANGED <<packerVars, watchVars, parked, runtime, authVars>>

\* handleRequestContent from the If-None-Match test on: 304 for the current
\* cache key, else the content with the cache key as ETag
Respond(get, file) ==
    IF get.tag = file.cacheKey
    THEN [get EXCEPT !.pc = "done", !.status = 304, !.cached = file.content]
    ELSE [get EXCEPT !.pc = "done", !.status = 200, !.etag = file.cacheKey,
                     !.body = file.content, !.cached = file.content]

\* GET /www/ arrives, with an ETag a response gave or with none (-1):
\* handleRequestContent up to the response or up to the readFile it awaits
ReceiveGet ==
    /\ Len(gets) < MaxGets
    /\ \E tag \in {-1} \cup { gets[j].etag : j \in 1..Len(gets) } :
          LET get == [pc |-> "readFile", tag |-> tag, status |-> 0, etag |-> -1,
                      body |-> NotLoaded, cached |-> NotLoaded,
                      after |-> { j \in 1..Len(gets) : gets[j].pc = "done" }]
          IN  gets' = Append(gets,
                  IF fileCache.content = NotLoaded
                  THEN IF webroot = NoPage
                       THEN [get EXCEPT !.pc = "done", !.status = 404]
                       ELSE get
                  ELSE Respond(get, fileCache))
    /\ UNCHANGED <<fileCache, webroot, clock>>
    /\ UNCHANGED <<packerVars, watchVars, parked, runtime, authVars>>

\* fs.promises.readFile settles with the file as it is then, or rejects;
\* the content is stored and the request answered
ReadFileReturns ==
    /\ \E i \in 1..Len(gets) :
          /\ gets[i].pc = "readFile"
          /\ IF webroot = NoPage
             THEN /\ gets' = [gets EXCEPT ![i] = [@ EXCEPT !.pc = "done", !.status = 500]]
                  /\ UNCHANGED fileCache
             ELSE /\ fileCache' = [fileCache EXCEPT !.content = webroot]
                  /\ gets' = [gets EXCEPT ![i] = Respond(@, fileCache')]
    /\ UNCHANGED <<webroot, clock>>
    /\ UNCHANGED <<packerVars, watchVars, parked, runtime, authVars>>

\* handleAdminReloadStatic(key) for the key home, or for a key that is not
\* known: the entry gets the time as key and loses its content when the
\* file differs from the content or the content is not loaded
HandleAdminReloadStatic ==
    /\ \E key \in {"home", "unknown"} :
          IF key = "home" /\ webroot # NoPage
             /\ (fileCache.content = NotLoaded \/ fileCache.content # webroot)
          THEN fileCache' = [cacheKey |-> clock, content |-> NotLoaded]
          ELSE UNCHANGED fileCache
    /\ UNCHANGED <<webroot, clock, gets>>
    /\ UNCHANGED <<packerVars, watchVars, parked, runtime, authVars>>

NextContent ==
    \/ WriteFile
    \/ Second
    \/ ReceiveGet
    \/ ReadFileReturns
    \/ HandleAdminReloadStatic

SpecContent == InitAuth /\ [][NextContent]_vars


(***************************************************************************)
(* The require graph of a file list, as the claims speak of it             *)
(***************************************************************************)

\* the entry is a file of the list that ends in .js
EntryIsSource(list) ==
    \E i \in 1..Len(list) :
        list[i].name = options.entry /\ EndsWith(list[i].name, JS)

\* what the load calls of the Source f resolve to, Null for a call that
\* resolves to no Source
Targets(list, f) ==
    LET sources == GetSources(list)
        requests == ModuleRequests(options.entry, sources, FindSource(sources, f))
    IN  { requests[k].resolvedFileName : k \in 1..Len(requests) }

\* the Sources f requires
Requires(list, f) == Targets(list, f) \ {Null}

RECURSIVE Closure(_, _)
\* the Sources of S and all they require, directly or not
Closure(list, S) ==
    LET more == S \cup UNION { Requires(list, f) : f \in S } IN
    IF more = S THEN S ELSE Closure(list, more)

\* the Sources reachable from the entry
Reachable(list) == Closure(list, {options.entry})

\* every load call of every reachable Source resolves
Resolvable(list) == \A f \in Reachable(list) : Null \notin Targets(list, f)

\* a reachable Source requires itself, directly or through others
Cyclic(list) ==
    \E f \in Reachable(list) : f \in Closure(list, Requires(list, f))

\* the last run returned
HasReturned == pc = "idle" /\ result.kind = "returned"

\* the last run returned success: true
Succeeded == HasReturned /\ result.value.success

\* the last run built its whole module list
ModulesBuilt == pc # "idle" \/ Succeeded \/ result.kind = "threw"

(***************************************************************************)
(* Claims                                                                  *)
(***************************************************************************)

\* C1: for a file list whose require graph reachable from the entry is
\* acyclic and fully resolvable, a run that returns returns success: true and
\* the module list holds exactly one module per reachable Source, none
\* missing and none twice.
C1_AcyclicPackedOnce ==
    (runs > 0 /\ EntryIsSource(start.files) /\ Resolvable(start.files)
         /\ ~Cyclic(start.files)) =>
        /\ HasReturned => result.value.success
        /\ ModulesBuilt =>
            /\ { modules[i].source.filename : i \in 1..Len(modules) }
                   = Reachable(start.files)
            /\ Len(modules) = Cardinality(Reachable(start.files))

\* C2: when the Sources reachable from the entry hold a require cycle, the
\* run returns success: false, with the circular reference message when
\* every load call resolves, and writes no file.
C2_CycleAlwaysFails ==
    (runs > 0 /\ EntryIsSource(start.files) /\ Cyclic(start.files)) =>
        /\ pc = "idle"
        /\ result = Returned([success |-> FALSE])
        /\ written = <<>>
        /\ Resolvable(start.files) => log = <<"circular reference">>

\* C3: when a Source reachable from the entry holds a load call that
\* resolves to no Source, the run returns success: false and writes no file.
C3_UnresolvedFails ==
    (runs > 0 /\ EntryIsSource(start.files) /\ ~Resolvable(start.files)) =>
        /\ pc = "idle"
        /\ result = Returned([success |-> FALSE])
        /\ log = <<"invalid module name">>
        /\ written = <<>>

\* a run failed on a load call of a module that is not the entry
C3_Witness ==
    /\ runs > 0
    /\ EntryIsSource(start.files)
    /\ ~Resolvable(start.files)
    /\ result = Returned([success |-> FALSE])
    /\ Len(modules) >= 1

\* C4: when the entry is not among the files that end in .js, the run
\* returns success: false, does not throw, and writes no file.
C4_InvalidEntryFails ==
    (runs > 0 /\ ~EntryIsSource(start.files)) =>
        /\ pc = "idle"
        /\ result = Returned([success |-> FALSE])
        /\ log = <<"invalid entry">>
        /\ written = <<>>

\* a run failed on an entry that is in the list but is no script
C4_Witness ==
    /\ runs > 0
    /\ ~EntryIsSource(start.files)
    /\ \E i \in 1..Len(start.files) : start.files[i].name = options.entry
    /\ result = Returned([success |-> FALSE])

\* C5: a successful run that follows a successful run with no change of the
\* list by the caller in between reports hasChange: false and writes the
\* bundle the earlier run wrote.
C5_UnchangedInputNoChange ==
    (Succeeded /\ start.result.kind = "returned" /\ start.result.value.success
         /\ ~start.edited) =>
        /\ result.value.hasChange = FALSE
        /\ written[1] = "js"
        /\ disk.js = start.okBundle

\* the second of two successful runs, the first of which removed a file
C5_Witness ==
    /\ Succeeded
    /\ start.result.kind = "returned"
    /\ start.result.value.success
    /\ ~start.edited
    /\ \E k \in 1..Len(start.log) : start.log[k] = "- removed file"
    /\ ~result.value.hasChange

\* C6 as stated: a successful run reports hasChange: true exactly when its
\* final bundle text differs from the final bundle text of the most recent
\* successful run, and always on the first successful run.
C6_ChangeSinceLastSuccess ==
    Succeeded => (result.value.hasChange <=> resultJs # start.okBundle)

\* C6 amended: a successful run reports hasChange: true exactly when its
\* final bundle text differs from the final bundle text of the most recent
\* run that set lastHash, whether or not the writes of that run succeeded,
\* and always when no run set lastHash before.
C6_ChangeSinceLastHash ==
    Succeeded => (result.value.hasChange <=> resultJs # start.hashedBundle)

\* a successful run after a run whose write failed and after an edit
C6_Witness ==
    /\ Succeeded
    /\ start.hashedBundle # start.okBundle
    /\ start.edited
    /\ result.value.hasChange

\* checkCircularReference returned true on the module list of the run
DetectedCircular == CheckCircularReference(modules)

RECURSIVE RewrittenIndex(_, _)
\* where the import call of the k-th request starts in the rewritten content
RewrittenIndex(requests, k) ==
    IF k = 1 THEN requests[1].index
    ELSE RewrittenIndex(requests, k - 1)
         + Len(ImportCall(requests[k - 1].resolvedModuleName))
         + (requests[k].index - RequestEnd(requests[k - 1]))

\* C9: for every load call of a module, the text emitted in its place is the
\* import call whose argument is the name of the module built from the
\* Source the call resolved to, and the runtime lookup of that argument in
\* the modules object finds that module.
C9_ImportFindsModule ==
    pc \in {"emit", "minify", "commit"} =>
        \A i \in 1..Len(modules) :
            \A k \in 1..Len(modules[i].requests) :
                LET r == modules[i].requests[k] IN
                /\ HasAt(modules[i].content, RewrittenIndex(modules[i].requests, k),
                         ImportCall(ModuleName(options.entry, r.resolvedFileName)))
                /\ \E j \in 1..Len(modules) :
                       /\ modules[j].source.filename = r.resolvedFileName
                       /\ modules[j].name = r.resolvedModuleName
                /\ RuntimeLookup(modules, r.resolvedModuleName).source.filename
                       = r.resolvedFileName

\* C10: in every module list a run builds, two modules of distinct Sources
\* have distinct names.
C10_NamesUnique ==
    \A i, j \in 1..Len(modules) :
        modules[i].source.filename # modules[j].source.filename
            => modules[i].name # modules[j].name

\* where the loader's initial argument starts in an emitted bundle
LoaderArgumentIndex ==
    (IF options.shebang THEN Len(Shebang) ELSE 0)
    + (IF options.type = "app" THEN Len(AppHead) ELSE Len(LibHead) + Len(Return))
    + Len(Loader) + 1

\* the module name the emitted prefix passes to the loader
LoaderArgument(sb) == QuotedFrom(sb, LoaderArgumentIndex)

\* the key of the first entry of the emitted object literal
FirstKey(sb) ==
    QuotedFrom(sb, LoaderArgumentIndex + Len(LoaderArgument(sb))
                       + Len(PrefixTail) + 1)

\* C11: in every successful run modules[0] is the module built from the
\* entry file, and the module name the emitted prefix passes to the loader
\* equals the key under which that module is emitted, the first key of the
\* object literal.
C11_EntryFirstAndLoaded ==
    Succeeded =>
        /\ modules[1].source.filename = options.entry
        /\ modules[1].name = ModuleName(options.entry, options.entry)
        /\ LoaderArgument(emitHost.sb) = modules[1].name
        /\ FirstKey(emitHost.sb) = modules[1].name
        /\ HasAt(emitHost.sb,
                 LoaderArgumentIndex + Len(modules[1].name) + Len(PrefixTail) - 1,
                 ModuleEntry([name |-> modules[1].name,
                              content |-> Rewrite(start.files[
                                  CHOOSE i \in 1..Len(start.files) :
                                      start.files[i].name = options.entry].content,
                                  modules[1].requests, 0)]))

\* a lib bundle with shebang whose entry is not the first file it emits
\* alone: the entry requires another module
C11_Witness ==
    /\ Succeeded
    /\ options.type = "lib"
    /\ options.shebang
    /\ Len(modules) >= 2
    /\ LoaderArgument(emitHost.sb) = <<"e">>

\* p occurs in s
Contains(s, p) == \E i \in 0..(Len(s) - Len(p)) : HasAt(s, i, p)

\* `var x = myimport("a"); x();`
ScenarioBody ==
    << "v", "a", "r", " ", "x", " ", "=", " ", "m", "y", "i", "m", "p", "o",
       "r", "t", "(", "\"", "a", "\"", ")", ";", " ", "x", "(", ")", ";" >>

\* a run on the scenario: entry /e.js requiring ./a.js, and /a.js
ScenarioRun == runs > 0 /\ start.files = ScenarioFiles /\ options.entry = FileE

\* the scenario with the entry module named entryName: the run does not
\* fail, the modules are the entry under that name and /a.js under `a`, and
\* the entry is emitted with the import call in place of the load call
ScenarioPacks(entryName) ==
    /\ result # Returned([success |-> FALSE])
    /\ Len(modules) = 2
    /\ modules[1].source.filename = FileE
    /\ modules[1].name = entryName
    /\ modules[2].source.filename = FileA
    /\ modules[2].name = <<"a">>
    /\ pc # "emit" =>
           Contains(emitHost.sb,
                    <<"'">> \o entryName \o ModuleHead \o ScenarioBody \o ModuleTail)

\* C12 as stated: packing the scenario succeeds, the module names are `.`
\* for the entry and `a` for /a.js, and the emitted entry-module body has
\* myimport("a") in place of the load call.
C12_ScenarioEntryDot == ScenarioRun => ScenarioPacks(DOT)

\* C12 amended: packing the scenario succeeds, the module names are `e` for
\* the entry and `a` for /a.js, and the emitted entry-module body has
\* myimport("a") in place of the load call.
C12_ScenarioEntryE == ScenarioRun => ScenarioPacks(<<"e">>)

\* the scenario has been packed and the run returned success
C12_Witness ==
    /\ ScenarioRun
    /\ Succeeded
    /\ disk.js = resultJs
    /\ Contains(disk.js, ScenarioBody)

\* the name the claim gives the directory module
NameLib == <<"l", "i", "b">>

\* C13: when the entry requires the directory module `./lib` and
\* /lib/index.js is among the Sources, the request resolves to /lib/index.js
\* and the module name, as the key of the module and as the argument of the
\* import call, is `lib`.
C13_DirectoryModuleNamedLib ==
    (pc # "idle" /\ options.entry = FileE) =>
        \A k \in 1..Len(modules[1].requests) :
            LET r == modules[1].requests[k] IN
            r.raw = RawLib =>
                /\ r.resolvedFileName = FileLib
                /\ r.resolvedModuleName = NameLib
                /\ \E j \in 1..Len(modules) :
                       /\ modules[j].source.filename = FileLib
                       /\ modules[j].name = NameLib

\* the names of the Sources of a list
SourceNames(list) ==
    { list[i].name : i \in { k \in 1..Len(list) : EndsWith(list[k].name, JS) } }

\* the candidates of a request of the file filename, in the order the
\* spec gives: the literal path, plus `.js`, plus `/index.js`
Candidates(filename, raw) ==
    LET full == PathResolve(PathDirname(filename), raw) IN
    << full, full \o JS, full \o SLASH \o INDEX \o JS >>

\* C14: every request a run resolved is resolved, against the requiring
\* file's directory, to the first of its candidates (literal path, plus
\* `.js`, plus `/index.js`) that is a Source of the list: an earlier
\* candidate that exists always wins over a later one.
C14_FirstCandidateWins ==
    runs > 0 =>
        \A i \in 1..Len(modules) :
            \A k \in 1..Len(modules[i].requests) :
                LET r == modules[i].requests[k]
                    c == Candidates(modules[i].source.filename, r.raw)
                    names == SourceNames(start.files)
                IN  \E n \in 1..3 :
                        /\ r.resolvedFileName = c[n]
                        /\ c[n] \in names
                        /\ \A e \in 1..(n - 1) : c[e] \notin names

\* a request `./a.js` resolved to /a.js although /a.js.js and
\* /a.js/index.js exist, and a request `./a` resolved to /a.js although
\* /a/index.js exists
C14_Witness ==
    /\ Succeeded
    /\ {FileA, FileAJsJs, FileADir, FileAJsDir} \subseteq SourceNames(start.files)
    /\ Len(modules[1].requests) = 2
    /\ modules[1].requests[1].raw = RawAJs
    /\ modules[1].requests[1].resolvedFileName = FileA
    /\ modules[1].requests[2].raw = RawA
    /\ modules[1].requests[2].resolvedFileName = FileA

\* the names and the rewritten bodies of a module list
NamesAndBodies(list) ==
    [i \in 1..Len(list) |-> [name |-> list[i].name, content |-> list[i].content]]

\* C15: a run that follows a run of the same instance, with no change of
\* the list by the caller in between, builds the modules a fresh instance
\* builds from the list the earlier run was given: the same names and the
\* same rewritten bodies, whatever the earlier run stored, cleared or
\* removed from the list.
C15_SecondRunBuildsTheSame ==
    (runs >= 2 /\ ~start.edited) =>
        LET fresh == BuildModules(options, start.previous).modules IN
        /\ NamesAndBodies(ClearModules(modules)) = NamesAndBodies(ClearModules(fresh))
        /\ pc \in {"emit", "minify", "commit"} =>
               NamesAndBodies(modules) = NamesAndBodies(fresh)

\* the second run of an instance whose first run removed a file from the
\* list, cleared the module contents and stored lastHash and lastModules
C15_Witness ==
    /\ runs >= 2
    /\ ~start.edited
    /\ pc = "emit"
    /\ Len(modules) >= 2
    /\ start.files # start.previous
    /\ lastHash # Null
    /\ lastModules # <<>>
    /\ lastModules[1].content = Null

\* the filenames of the modules of a list
ModuleFiles(list) == { list[i].source.filename : i \in 1..Len(list) }

\* C16: the name of every module a run builds is the name computed from
\* the entry path and the module's own filename, and a module whose file is
\* in the graph of this run and in the graph of the last run that stored
\* its modules has the same name in both, whatever files the caller added
\* to or removed from the list in between.
C16_NameOfEntryAndFilenameOnly ==
    /\ \A i \in 1..Len(modules) :
           modules[i].name = ModuleName(options.entry, modules[i].source.filename)
    /\ \A i \in 1..Len(modules) : \A j \in 1..Len(lastModules) :
           modules[i].source.filename = lastModules[j].source.filename
               => modules[i].name = lastModules[j].name

\* a run whose list lost or got, since the last run, a file that is no
\* module of either graph and not the map of one, while two modules stayed
C16_Witness ==
    /\ pc = "emit"
    /\ lastModules # <<>>
    /\ start.edited
    /\ \E f \in (FileNames(start.files) \ FileNames(start.previous))
                  \cup (FileNames(start.previous) \ FileNames(start.files)) :
           /\ EndsWith(f, JS)
           /\ f \notin ModuleFiles(modules) \cup ModuleFiles(lastModules)
    /\ Cardinality(ModuleFiles(modules) \cap ModuleFiles(lastModules)) = 2

\* a module of the run whose Source has no companion map in the list
SomeModuleWithoutMap ==
    \E i \in 1..Len(modules) :
        modules[i].source.filename \o MAP \notin FileNames(start.files)

\* C17: with source maps enabled, a run that built its modules, one of
\* which has no companion map, and that met no failure of the minifier or
\* of a write, ends with success: true.
C17_MissingMapStillPacks ==
    (/\ pc = "idle"
     /\ runs > 0
     /\ options.sourceMap
     /\ faults = 0
     /\ ModulesBuilt
     /\ SomeModuleWithoutMap) => Succeeded

\* the files of the lines of one kind
Reported(lines, kind) ==
    { lines[k].filename : k \in { n \in 1..Len(lines) : lines[n].kind = kind } }

\* the files that are modules of both lists with differing content digests
Updated(current, previous) ==
    { f \in ModuleFiles(current) \cap ModuleFiles(previous) :
        FindFile(current, f).hash # FindFile(previous, f).hash }

\* C18: with diagnostic printing enabled, when a run that follows a
\* successful run finds its bundle changed, the modules it reports as added
\* are those whose filename is not in the previous module list, as updated
\* those whose filename is in both lists with a differing content digest,
\* as removed those of the previous list whose filename is not in the
\* current one, and it reports nothing else; when the two lists hold the
\* same files and one module's digest differs, the one line printed is
\* that module as updated.
C18_PrintedDiff ==
    [][(/\ pc = "commit"
        /\ pc' = "writeJs"
        /\ PrintEnabled(options)
        /\ hasChange'
        /\ start.result.kind = "returned"
        /\ start.result.value.success) =>
          /\ Reported(printed', "added")
                 = ModuleFiles(modules) \ ModuleFiles(lastModules)
          /\ Reported(printed', "updated") = Updated(modules, lastModules)
          /\ Reported(printed', "removed")
                 = ModuleFiles(lastModules) \ ModuleFiles(modules)
          /\ \A k \in 1..Len(printed') :
                 printed'[k].kind \in {"added", "updated", "removed"}
          /\ \A b \in ModuleFiles(modules) :
                 (/\ ModuleFiles(modules) = ModuleFiles(lastModules)
                  /\ Len(modules) = Len(lastModules)
                  /\ Updated(modules, lastModules) = {b}) =>
                     printed' = <<PrintLine("updated", FindFile(modules, b))>>]_vars

\* a successful run after a successful run and a change of the content of
\* /a.js alone: the one line printed is /a.js as updated
C18_Witness ==
    /\ Succeeded
    /\ result.value.hasChange
    /\ start.result.kind = "returned"
    /\ start.result.value.success
    /\ start.edited
    /\ Len(modules) = 2
    /\ printed = <<[kind |-> "updated", name |-> <<"a">>, filename |-> FileA]>>

\* the names that stay: the filenames of the modules and these plus `.map`
KeptNames(list) == ModuleFiles(list) \cup { f \o MAP : f \in ModuleFiles(list) }

\* C19: after a successful run with cleanupFiles absent or true the
\* caller's list holds exactly the entries it held before the run whose
\* name is the filename of a module of the graph or that filename plus
\* `.map`, in their order; with cleanupFiles false the list is as it was.
C19_CleanupKeepsGraphFiles ==
    Succeeded =>
        IF "cleanupFiles" \notin DOMAIN options \/ options.cleanupFiles
        THEN files = SelectSeq(start.files, LAMBDA f : f.name \in KeptNames(modules))
        ELSE files = start.files

\* a successful run that removed a script and its map and kept the map of
\* a module
C19_Witness ==
    /\ Succeeded
    /\ "cleanupFiles" \notin DOMAIN options
    /\ Len(files) + 2 = Len(start.files)
    /\ \E i \in 1..Len(files) : files[i].name = FileE \o MAP
    /\ FileA \o MAP \in FileNames(start.files) \ FileNames(files)

\* C20: every successful run has written the bundle to the output path
\* and, when source maps are enabled, the map to the output path plus
\* `.map`, also when it reports hasChange: false.
C20_AlwaysWrites ==
    Succeeded =>
        /\ written = IF options.sourceMap THEN <<"js", "map">> ELSE <<"js">>
        /\ disk.js = resultJs
        /\ options.sourceMap => disk.map = resultMap

\* a successful run with source maps that reported hasChange: false and
\* wrote both files over those of the run before
C20_Witness ==
    /\ Succeeded
    /\ ~result.value.hasChange
    /\ options.sourceMap
    /\ written = <<"js", "map">>
    /\ disk.map = resultMap
    /\ runs >= 2

\* every module stored in lastModules has its three texts cleared
LastModulesCleared ==
    \A i \in 1..Len(lastModules) :
        /\ lastModules[i].content = Null
        /\ lastModules[i].source.jsContent = Null
        /\ lastModules[i].source.mapContent = Null

\* after a run that stored its modules, lastModules holds the modules the
\* run built with their names, hashes and filenames
LastModulesKeepIdentity ==
    (Succeeded \/ result = Threw("writeFile")) =>
        LET built == BuildModules(options, start.files).modules IN
        /\ Len(lastModules) = Len(built)
        /\ \A i \in 1..Len(built) :
               /\ lastModules[i].name = built[i].name
               /\ lastModules[i].hash = built[i].hash
               /\ lastModules[i].source.filename = built[i].source.filename

\* C21 as stated: between runs lastHash and lastModules are both null
\* until the first successful run and both non-null after it, and every
\* module stored in lastModules has its content, jsContent and mapContent
\* cleared and keeps its name, hash and filename.
C21_NullUntilFirstSuccess ==
    pc = "idle" =>
        /\ okBundle = Null => (lastHash = Null /\ lastModules = <<>>)
        /\ okBundle # Null => (lastHash # Null /\ lastModules # <<>>)
        /\ LastModulesCleared
        /\ LastModulesKeepIdentity

\* C21 amended: between runs lastHash and lastModules are both null until
\* the first run that got as far as storing lastHash, whether or not its
\* writes then succeeded, and both non-null after it, and every module
\* stored in lastModules has its content, jsContent and mapContent cleared
\* and keeps its name, hash and filename.
C21_NullUntilFirstHash ==
    pc = "idle" =>
        /\ hashedBundle = Null => (lastHash = Null /\ lastModules = <<>>)
        /\ hashedBundle # Null => (lastHash # Null /\ lastModules # <<>>)
        /\ LastModulesCleared
        /\ LastModulesKeepIdentity

\* between runs, after a successful run with source maps that stored two
\* modules built from Sources with maps
C21_Witness ==
    /\ Succeeded
    /\ options.sourceMap
    /\ Len(lastModules) = 2
    /\ lastModules[2].source.mapContent = Null
    /\ lastModules[2].hash = Sha256(Stmt)
    /\ FileA \o MAP \in FileNames(start.files)

\* C22 as stated: within one run() other code runs only while run() waits
\* for one of the two file writes: a change of the list by the caller
\* during a run falls on a write.
C22_YieldsOnlyAtWrites ==
    [][(edits' # edits /\ pc # "idle") => pc \in {"writeJs", "writeMap"}]_vars

\* C22 amended: graph building, rewriting and cycle checking run in one
\* piece with the call of run() and see the list as it is at the call; the
\* run can yield at each await of emitModule, at the await of the minifier
\* and at each of the two writes, and nowhere else: not between the hash,
\* the cleanup and the store of lastModules.
C22_YieldsAtAwaits ==
    [][/\ (edits' # edits /\ pc # "idle") =>
              pc \in {"emit", "minify", "writeJs", "writeMap"}
       /\ runs' # runs =>
              /\ edits' = edits
              /\ modules' = BuildModules(options, files).modules
       /\ pc = "commit" =>
              /\ pc' = "writeJs"
              /\ lastHash' = Sha256(resultJs)
              /\ lastModules' = ClearModules(modules)]_vars

\* the caller changed its list while run() waited for an emitModule, and
\* the run went on to its writes with the modules it had built
C22_Witness ==
    /\ pc = "writeJs"
    /\ edited
    /\ files # start.files
    /\ files # CleanupMemoryFile(modules, start.files)
    /\ written = <<>>
    /\ lastModules # <<>>

\* the bundle write has been called and has not completed
BundleWriteInFlight == pc = "writeJs"

\* the map write has been called and has not completed
MapWriteInFlight == pc = "writeMap"

\* C23 as stated: with source maps enabled neither write waits for the
\* other before it starts, so that while the bundle write is in flight the
\* map write has been started too, and the run is complete only after both
\* have finished.
C23_WritesStartTogether ==
    /\ (options.sourceMap /\ BundleWriteInFlight) =>
           (MapWriteInFlight \/ \E k \in 1..Len(written) : written[k] = "map")
    /\ (options.sourceMap /\ Succeeded) => written = <<"js", "map">>

\* C23 amended: with source maps enabled the map write is started only
\* after the bundle write has finished, the two are never in flight
\* together, the map is never written by a run that has not written the
\* bundle, and the run is complete only after both have finished.
C23_WritesOneAfterTheOther ==
    /\ ~(BundleWriteInFlight /\ MapWriteInFlight)
    /\ BundleWriteInFlight => written = <<>>
    /\ MapWriteInFlight =>
           (options.sourceMap /\ written = <<"js">> /\ disk.js = resultJs)
    /\ (options.sourceMap /\ Succeeded) =>
           (written = <<"js", "map">> /\ disk.map = resultMap)
    /\ written \in {<<>>, <<"js">>, <<"js", "map">>}

\* the map write is in flight after the bundle write has finished
C23_Witness ==
    /\ MapWriteInFlight
    /\ written = <<"js">>
    /\ disk.js = resultJs
    /\ disk.map = NoFile

\* a generate() call that has not returned
Running(g) == g.phase \notin {"done", "failed"}

\* C24: in the polling watch loop a generation is started only when the
\* flag is set, and never while a generation started by an earlier tick
\* has not completed.
C24_NoOverlappingRuns ==
    [][Len(generations') > Len(generations) =>
          /\ regenerateRequested
          /\ \A i \in 1..Len(generations) : ~Running(generations[i])]_vars

RECURSIVE EmitAll(_, _, _)
\* the host after the modules from the k-th on are emitted
EmitAll(host, list, k) ==
    IF k > Len(list) THEN host
    ELSE EmitAll(EmitModule(host, list[k]), list, k + 1)

\* the bundle a packer with these options, run alone, makes of a list
BundleAlone(opts, list) ==
    LET built == BuildModules(opts, list).modules
        host == [sb |-> <<>>, lineOffset |-> 0,
                 generator |-> IF opts.sourceMap THEN NewGenerator(opts.output)
                               ELSE NullGenerator]
        sb == EmitRuntimePostfix(
                  EmitAll(EmitRuntimePrefix(host, opts, built[1].name), built, 1)).sb
    IN  IF opts.minify THEN MinifyCode(sb) ELSE sb

\* C25: two packers with different entries share one list, both with
\* cleanupFiles false, and run one complete run after the other in any
\* order: the list stays as it was, and every run returns what the packer
\* returns when it runs alone on that list: the same success, the bundle
\* of its own entry, and hasChange: true exactly on the first run of that
\* packer that stores its hash.
C25_SharedListPackersIndependent ==
    /\ files \in SharedLists
    /\ start.files # <<>> => files = start.files
    /\ HasReturned =>
           result.value.success = (BuildModules(options, files).outcome = "ok")
    /\ Succeeded =>
           /\ resultJs = BundleAlone(options, files)
           /\ disk.js = resultJs
           /\ result.value.hasChange = (start.hashedBundle = Null)

\* both packers have run, the second after the first and the first again
C25_Witness ==
    /\ Succeeded
    /\ ~result.value.hasChange
    /\ options.entry = FileE
    /\ parked.result = Returned([success |-> TRUE, hasChange |-> TRUE])
    /\ parked.lastModules # <<>>
    /\ parked.disk.js # disk.js
    /\ Len(files) = 5

\* C26: when the minifier fails the run ends with the minifier's error and
\* no result value, no write has been started, and the file list, lastHash,
\* lastModules and the files on disk are those of the start of the run.
C26_MinifyFailurePropagates ==
    [][(pc = "minify" /\ pc' = "idle") =>
          /\ result' = Threw("minify")
          /\ written' = <<>>
          /\ disk' = start.disk
          /\ files' = start.files
          /\ lastHash' = start.lastHash
          /\ lastModules' = start.lastModules]_vars

\* the minifier has failed in a run that follows a successful one
C26_Witness ==
    /\ pc = "idle"
    /\ result = Threw("minify")
    /\ start.result = Returned([success |-> TRUE, hasChange |-> TRUE])
    /\ lastHash # Null
    /\ lastModules # <<>>

RECURSIVE Replaced(_, _, _, _)
\* the text from the 0-based index i on, read character by character, with
\* the k-th and later load calls replaced by the import calls of the names
Replaced(text, i, names, k) ==
    IF i >= Len(text) THEN <<>>
    ELSE IF MatchAt(text, i) # -1 /\ k <= Len(names)
         THEN ImportCall(names[k]) \o Replaced(text, MatchAt(text, i), names, k + 1)
         ELSE <<text[i + 1]>> \o Replaced(text, i + 1, names, k)

\* the names the requests of a module resolved to
ResolvedNames(m) == [k \in 1..Len(m.requests) |-> m.requests[k].resolvedModuleName]

\* C27: the rewritten content of a module is its source text with each
\* detected load call replaced by the import call and every other character
\* kept in order; each detected call is require(" + path + "); and is as
\* long as the path plus 12.
C27_RewriteReplacesCallsOnly ==
    pc = "emit" =>
        \A i \in 1..Len(modules) :
            LET m == modules[i] IN
            /\ m.content = Replaced(m.source.jsContent, 0, ResolvedNames(m), 1)
            /\ \A k \in 1..Len(m.requests) :
                   LET r == m.requests[k] IN
                   /\ MatchAt(m.source.jsContent, r.index) = r.index + Len(r.raw) + 12
                   /\ Slice(m.source.jsContent, r.index, r.index + Len(r.raw) + 12)
                          = RequireOpen \o r.raw \o RequireClose

\* a module with text before and after a load call is rewritten
C27_Witness ==
    /\ pc = "emit"
    /\ \E i \in 1..Len(modules) :
           LET m == modules[i] IN
           /\ Len(m.requests) > 0
           /\ m.requests[1].index > 0
           /\ RequestEnd(m.requests[Len(m.requests)]) < Len(m.source.jsContent)
           /\ m.content # m.source.jsContent

\* the column of the 0-based index p of a text: its distance from the start
\* of its line
Column(text, p) ==
    LET breaks == { j \in 1..p : text[j] = NL } IN
    IF breaks = {} THEN p
    ELSE p - (CHOOSE j \in breaks : \A l \in breaks : l <= j)

RECURSIVE Shift(_, _, _)
\* how far the rewrite moves the source index p: the difference in length of
\* the import calls and the load calls that end at or before p, from the
\* k-th request on
Shift(m, p, k) ==
    IF k > Len(m.requests) \/ RequestEnd(m.requests[k]) > p THEN 0
    ELSE Len(ImportCall(m.requests[k].resolvedModuleName))
         - (Len(m.requests[k].raw) + 12)
         + Shift(m, p, k + 1)

\* the source index p lies in no load call
OutsideCalls(m, p) ==
    \A k \in 1..Len(m.requests) :
        p < m.requests[k].index \/ p >= RequestEnd(m.requests[k])

\* C28: every character of a module outside a rewritten load call, the
\* line breaks aside, stands at the same column of its line in the rewritten
\* content as in the source, where a mapping re-emitted with its generated
\* column unchanged looks for it.
C28_ColumnsUnchanged ==
    pc = "emit" =>
        \A i \in 1..Len(modules) :
            LET m == modules[i] IN
            \A p \in 0..(Len(m.source.jsContent) - 1) :
                (OutsideCalls(m, p) /\ m.source.jsContent[p + 1] # NL) =>
                    Column(m.content, p + Shift(m, p, 1))
                        = Column(m.source.jsContent, p)

RECURSIVE ModuleLines(_, _)
\* the lines the first n modules take: for each its declaration line and the
\* line breaks of its rewritten content
ModuleLines(list, n) ==
    IF n = 0 THEN 0
    ELSE ModuleLines(list, n - 1) + 1 + CountChar(list[n].content, NL)

\* the number of line breaks in a text
Newlines(text) == Cardinality({ j \in 1..Len(text) : text[j] = NL })

\* C29: with source maps enabled, at the start of every module emission and
\* after the last one, lineOffset is the number of line breaks already in
\* the output buffer, which is 1 for the shebang if there is one, 2 for the
\* preamble of either target kind, and for each emitted module 1 plus the
\* line breaks of its rewritten content.
C29_LineOffsetCountsNewlines ==
    (pc = "emit" /\ options.sourceMap) =>
        /\ emitHost.lineOffset = Newlines(emitHost.sb)
        /\ emitHost.lineOffset =
               (IF options.shebang THEN 1 ELSE 0) + 2
               + ModuleLines(modules, emitIndex - 1)

\* all modules of a library with a shebang are emitted, one of them of
\* several lines
C29_Witness ==
    /\ pc = "emit"
    /\ options.sourceMap
    /\ options.shebang
    /\ options.type = "lib"
    /\ Len(modules) > 1
    /\ emitIndex > Len(modules)
    /\ \E i \in 1..Len(modules) : CountChar(modules[i].content, NL) > 1
    /\ emitHost.lineOffset > 6

\* the 0-based index in the buffer at which the content of the i-th emitted
\* module starts: right after the i-th `': (exports, myimport) => {\n`
ContentStart(sb, i) ==
    LET heads == { p \in 0..(Len(sb) - Len(ModuleHead)) : HasAt(sb, p, ModuleHead) }
    IN  (CHOOSE p \in heads : Cardinality({ q \in heads : q < p }) = i - 1)
        + Len(ModuleHead)

\* the 1-based line of the buffer that holds the 0-based index p
BundleLine(sb, p) == 1 + Cardinality({ j \in 1..p : sb[j] = NL })

\* the 0-based index at which line g of a text starts
LineStart(text, g) ==
    IF g = 1 THEN 0
    ELSE CHOOSE p \in 1..Len(text) :
             /\ text[p] = NL
             /\ Cardinality({ j \in 1..p : text[j] = NL }) = g - 1

RECURSIVE MappingsBefore(_, _)
\* the number of mappings of the modules before the i-th
MappingsBefore(list, i) ==
    IF i = 1 THEN 0
    ELSE MappingsBefore(list, i - 1)
         + Len(ParseMap(list[i - 1].source.mapContent))

\* C30: for an emitted module whose map's first mapping lies on line 1 of
\* the module's file, the mapping of every line g of that file is re-emitted
\* on the line of the bundle that holds line g of the module's rewritten
\* content, the first content line being the one right after the module's
\* declaration line, at every module position, with and without a shebang.
C30_MappingsLandOnContentLines ==
    (pc = "emit" /\ options.sourceMap) =>
        \A i \in 1..(emitIndex - 1) :
            LET m == modules[i]
                maps == ParseMap(m.source.mapContent)
                at == ContentStart(emitHost.sb, i)
            IN  maps[1].generatedLine = 1 =>
                    /\ HasAt(emitHost.sb, at, m.content)
                    /\ BundleLine(emitHost.sb, at)
                           = BundleLine(emitHost.sb, at - 1) + 1
                    /\ \A k \in 1..Len(maps) :
                           maps[k].generatedLine <= 1 + Newlines(m.content) =>
                               emitHost.generator.mappings[MappingsBefore(modules, i) + k]
                                       .generatedLine
                                   = BundleLine(emitHost.sb,
                                         at + LineStart(m.content, maps[k].generatedLine))

\* the second module, of two lines, has been emitted after a shebang with
\* mappings on its first and its second line
C30_Witness ==
    /\ pc = "emit"
    /\ options.sourceMap
    /\ options.shebang
    /\ emitIndex > 2
    /\ Newlines(modules[1].content) > 1
    /\ Newlines(modules[2].content) > 1
    /\ LET maps == ParseMap(modules[2].source.mapContent) IN
       /\ maps[1].generatedLine = 1
       /\ \E k \in 1..Len(maps) : maps[k].generatedLine = 2

\* how often a name stands in a list of names
Occurrences(names, name) == Cardinality({ i \in 1..Len(names) : names[i] = name })

\* the largest number of load calls in one Source of a list, or 1
MostRequests(list) ==
    LET sources == GetSources(list)
        counts == { Len(ExecAll(sources[i].jsContent, 0)) : i \in 1..Len(sources) }
    IN  CHOOSE n \in counts \cup {1} : \A c \in counts \cup {1} : c <= n

\* the traversal of the run that started last enqueued the entry once and
\* every other file name at most as often as one Source has load calls
EnqueuedBounded ==
    LET sources == GetSources(start.files)
        names == TraverseNames(options.entry, sources, <<options.entry>>, 1)
    IN  /\ Occurrences(names, options.entry) = 1
        /\ \A i \in 1..Len(names) :
               Occurrences(names, names[i]) <= MostRequests(start.files)
        /\ Len(names) <= 1 + Len(sources) * MostRequests(start.files)

\* the circular-reference walk of the run that started last never loads a
\* module whose name is on the loading stack
WalkBounded ==
    LET b == BuildModules(options, start.files) IN
    b.outcome \in {"ok", "circular reference"} =>
        \A stack \in LoadStacks(b.modules, b.modules[1], <<>>) :
            /\ \A i, j \in 1..Len(stack) : stack[i] = stack[j] => i = j
            /\ Len(stack) <= Len(b.modules)

\* C31: every run() that is called ends, with a result or an error, on every
\* file list; its traversal enqueues every file name a bounded number of
\* times, cycles of requires included, and its circular-reference walk stops
\* at the first module found again on the loading stack.
C31_RunTerminates ==
    /\ []((runs > 0 /\ HasSource(GetSources(start.files), options.entry)) =>
             (EnqueuedBounded /\ WalkBounded))
    /\ (pc # "idle") ~> (pc = "idle" /\ result.kind \in {"returned", "threw"})
    /\ [](pc = "idle" /\ runs > 0 => result.kind \in {"returned", "threw"})

\* a run on a list whose requires form a cycle has returned
C31_Witness ==
    /\ pc = "idle"
    /\ runs > 0
    /\ files = start.files
    /\ HasSource(GetSources(files), options.entry)
    /\ Resolvable(files)
    /\ Cyclic(files)
    /\ result = Returned([success |-> FALSE])

\* C32: in an execution of an emitted bundle, app or lib, the loader calls
\* the function of a name at most once; the cache slot of a module exists
\* while its function runs; every import of a name returns the one export
\* object of that name; the first function called is the entry's and any
\* other is called only when a module called before imports it.
C32_LoaderCallsOnce ==
    runtime.phase # "none" =>
        /\ \A i, j \in 1..Len(runtime.calls) :
               runtime.calls[i] = runtime.calls[j] => i = j
        /\ runtime.calls = runtime.cache
        /\ \A k \in 2..Len(runtime.stack) :
               Includes(runtime.cache, runtime.stack[k].name)
        /\ \A i, j \in 1..Len(runtime.imports) :
               (runtime.imports[i].name = runtime.imports[j].name)
                   <=> (runtime.imports[i].object = runtime.imports[j].object)
        /\ runtime.calls # <<>> => runtime.calls[1] = runtime.program.entry
        /\ \A k \in 2..Len(runtime.calls) :
               \E j \in 1..(k - 1) :
                   Includes(RuntimeLookup(runtime.program.modules,
                                          runtime.calls[j]).imports,
                            runtime.calls[k])

\* a library bundle has been executed to its end: three functions were
\* called and one name was imported twice, by two modules
C32_Witness ==
    /\ runtime.phase = "done"
    /\ options.type = "lib"
    /\ Len(runtime.calls) = 3
    /\ \E i, j \in 1..Len(runtime.imports) :
           i # j /\ runtime.imports[i].name = runtime.imports[j].name
    /\ Len(runtime.program.modules[1].imports) = 2
    /\ Len(runtime.program.modules[2].imports) + Len(runtime.program.modules[3].imports) = 1

\* the indexes of the script files of a list that no module reachable from
\* the entry resolves to
Unreached(list) ==
    { i \in 1..Len(list) :
        /\ IsScript(list[i])
        /\ HasSource(GetSources(list), options.entry) => list[i].name \notin Reachable(list) }

\* the lists that differ from a list in the content of one unreached script
\* file, a content with an unresolvable load call among them
UnreachedChanged(list) ==
    UNION { { [list EXCEPT ![i].content = c] :
                c \in Contents(list[i].name) \cup {Req(RawMissing), StmtBlank} } :
            i \in Unreached(list) }

\* C33: the result of a run is the result that run() has on every list that
\* differs from the run's list only in the content of a script file that no
\* module reachable from the entry resolves to, be the other content a
\* change or an unresolvable load call: the same success, the same bundle,
\* the same hasChange.
C33_UnreachedSourcesIgnored ==
    HasReturned =>
        \A other \in UnreachedChanged(start.files) :
            /\ result.value.success = (BuildModules(options, other).outcome = "ok")
            /\ result.value.success =>
                   /\ resultJs = BundleAlone(options, other)
                   /\ result.value.hasChange
                          = HasChange(Sha256(BundleAlone(options, other)),
                                      start.lastHash)

\* a run has succeeded on a list with a script file that is not reached and
\* holds an unresolvable load call, and on one with an unreached script that
\* could hold one
C33_Witness ==
    /\ Succeeded
    /\ \E i \in Unreached(start.files) :
           Null \in Targets(start.files, start.files[i].name)
    /\ Cardinality(UnreachedChanged(start.files)) > 3

\* C34: when the first write is attempted nothing is written yet, and
\* lastHash holds the hash of the new bundle, lastModules the cleared modules
\* of this run, and the list is cleaned; a run whose bundle write failed
\* leaves that hash stored and the output as it was; and the run that
\* follows such a failure on the unchanged input reports hasChange: false.
C34_CommittedBeforeWrites ==
    /\ pc = "writeJs" =>
           /\ written = <<>>
           /\ disk = start.disk
           /\ lastHash = Sha256(resultJs)
           /\ lastModules = ClearModules(BuildModules(options, start.files).modules)
           /\ files = IF CleanupEnabled(options)
                      THEN CleanupMemoryFile(modules, start.files)
                      ELSE start.files
    /\ (pc = "idle" /\ result = Threw("writeFile") /\ written = <<>>) =>
           /\ lastHash = Sha256(resultJs)
           /\ lastHash # start.lastHash => disk.js # resultJs
           /\ disk = start.disk
    /\ (Succeeded /\ start.result = Threw("writeFile")) =>
           ~result.value.hasChange

\* the first run failed at the bundle write; the second run found no bundle
\* at the output path and reported no change
C34_Witness ==
    /\ Succeeded
    /\ runs = 2
    /\ start.result = Threw("writeFile")
    /\ start.disk.js = NoFile
    /\ start.lastHash = Sha256(resultJs)
    /\ ~result.value.hasChange

\* some generation started after the n-th notification
GeneratedAfter(n) == \E i \in 1..Len(generations) : generations[i].after >= n

\* the first tick starts a generation whatever the notifications, and a tick
\* starts at most one generation
TicksStartOne ==
    /\ ticks > 0 => (Len(generations) > 0 /\ generations[1].tick = 1)
    /\ \A i, j \in 1..Len(generations) :
           i < j => generations[i].tick < generations[j].tick
    /\ Len(generations) <= ticks

Presents(q, deviceId) ==
    /\ q.kind \in {"credential", "remove"}
    /\ \E d \in InitialDatabase.devices : d.Id = deviceId /\ d.Token = q.token

\* authenticate returned for the request: ctx.state.user is set
Authenticated(q) == q.user # None

\* C36: once a DELETE /user-devices/:id for a device has completed with
\* 204, no request that came afterwards with the device's access token
\* authenticates, whatever requests used the token during the removal
C36_RemovedDeviceNeverAuthenticates ==
    \A i, j \in 1..Len(received) :
        ( /\ received[i].kind = "remove"
          /\ received[i].outcome = "204"
          /\ i \in received[j].after
          /\ Presents(received[j], received[i].deviceId) )
        => ~Authenticated(received[j])

\* C37: the one-time password of a login is checked against the record of
\* the user whose name is the claimed name but for case, whether the record
\* comes from the user cache or from the database
C37_LoginChecksClaimedUser ==
    \A i \in 1..Len(received) :
        (received[i].kind = "login" /\ received[i].checked # None)
        => CollatorCompare(received[i].checked.Name, received[i].username) = 0

\* C38: after authenticate, ctx.state.user has the id and the name of the
\* user whose Id is the UserId of the device of the token, and every record
\* of the user cache is as the database gave it
C38_StateUserIsDeviceOwner ==
    /\ \A i \in 1..Len(received) :
           Authenticated(received[i])
           => /\ received[i].user.id = received[i].device.UserId
              /\ \E u \in UserTable :
                     /\ u.Id = received[i].user.id
                     /\ u.Name = received[i].user.name
    /\ \A k \in 1..Len(userStorage) : userStorage[k] \in UserTable

\* C39: after expire-device for a device has completed, the first request
\* that comes with the device's access token ends with 'authorization
\* expired', the device cached or not (no removal of the device is asked)
C39_ExpiredDeviceRejected ==
    \A e, q \in 1..Len(received) :
        ( /\ received[e].kind = "expire"
          /\ e \in received[q].after
          /\ Presents(received[q], received[e].deviceId)
          /\ \A p \in 1..Len(received) : received[p].kind # "remove"
          /\ \A p \in 1..(q - 1) :
                 ~(e \in received[p].after
                   /\ Presents(received[p], received[e].deviceId))
          /\ received[q].pc = "done" )
        => received[q].outcome = "authorization expired"

\* C40: a GET is answered 304 for an If-None-Match tag only if the content
\* cached then is the content that the responses before it gave with that
\* tag as ETag, whatever reloads and file changes came between
C40_NotModifiedOnlyForSameContent ==
    \A i, j \in 1..Len(gets) :
        ( /\ gets[i].pc = "done" /\ gets[i].status = 304
          /\ j \in gets[i].after /\ gets[j].status = 200
          /\ gets[j].etag = gets[i].tag )
        => gets[j].body = gets[i].cached

====
